---- MODULE Spec2Model ----
(***************************************************************************)
(* A model of the smoothing and refinement core of the manifold mesh       *)
(* library (src/src/manifold/src/smoothing.cpp): the partition cache,      *)
(* Subdivide / Refine, SetNormals and CreateTangents.                      *)
(*                                                                         *)
(* Conventions.  C++ arrays are TLA+ sequences holding 0-based indices as  *)
(* values; element i of a C++ array a is a[i + 1].  A glm::vec3 of         *)
(* barycentric weights is the exact rational <<x, y, z, d>> (x/d, y/d,     *)
(* z/d) in lowest terms; float expressions that feed integer decisions     *)
(* (round, sqrt, the acute test) are evaluated exactly, which agrees with  *)
(* the float32 evaluation for every division count below 22.              *)
(***************************************************************************)
EXTENDS Integers, Sequences, FiniteSets, TLC

----------------------------------------------------------------------------
(* Bounds of the model *)

\* largest number of divisions of one edge in the partition specification
MaxDiv == 6

\* largest number of vertices the edgeDivisions callback adds to one edge
MaxAdded == 2

\* largest number of divisions of one edge in the cache specification
MaxKeyDiv == 2

\* largest number of different GetPartition calls in one history
MaxCalls == 3

\* the number of SetNormals calls made on a mesh
MaxSetNormalsCalls == 2

\* the number of threads that call GetPartition at the same time
MaxThreads == 2

\* largest number of entries of a sharpenedEdges list
MaxSharpened == 3

\* the number of operations called on the empty mesh
MaxEmptyOps == 2

\* the number of operations in a sequence of Refine and CreateTangents calls
MaxSeqOps == 4

\* largest number of vertices the callback adds to an edge in such a sequence
MaxSeqAdded == 1

\* largest number of triangles a Refine of such a sequence may produce
MaxSeqTris == 20

----------------------------------------------------------------------------
(* Arithmetic helpers *)

Min(a, b) == IF a < b THEN a ELSE b

Max(a, b) == IF a < b THEN b ELSE a

Abs(a) == IF a < 0 THEN 0 - a ELSE a

Next3(i) == (i + 1) % 3

RECURSIVE GCD(_, _)
GCD(a, b) == IF b = 0 THEN a ELSE GCD(b, a % b)

\* a rational 3-vector in lowest terms
Vec3Q(x, y, z, d) ==
  LET g == GCD(GCD(GCD(Abs(x), Abs(y)), Abs(z)), d)
  IN  <<x \div g, y \div g, z \div g, d \div g>>

\* glm::mix(p, q, num/den) = p * (1 - a) + q * a, componentwise
Mix(p, q, num, den) ==
  Vec3Q(p[1] * q[4] * (den - num) + q[1] * p[4] * num,
        p[2] * q[4] * (den - num) + q[2] * p[4] * num,
        p[3] * q[4] * (den - num) + q[3] * p[4] * num,
        p[4] * q[4] * den)

\* glm::round of the non-negative rational num/den (halves away from zero)
Round(num, den) == (2 * num + den) \div (2 * den)

\* glm::round(glm::sqrt(d)) for an integer d >= 0
RoundSqrt(d) ==
  IF d = 0 THEN 0
  ELSE CHOOSE r \in 1..d : r * r - r < d /\ d <= r * r + r

\* the element of a C++ array at 0-based index i
At(a, i) == a[i + 1]

\* F applied to the value of x: a local variable, computed once
Bind(x, F(_)) == CHOOSE r \in {F(v) : v \in {x}} : TRUE

InRange(a, i) == i >= 0 /\ i < Len(a)

----------------------------------------------------------------------------
(* class Partition: construction of the cached triangulation *)

\* the partition under construction: the two vectors PartitionQuad appends
\* to, whether the "negative divisions!" assertion has fired, and whether
\* vertBary was read outside its bounds
NewBuild(vertBary, triVert) ==
  [vertBary |-> vertBary, triVert |-> triVert, neg |-> FALSE, oob |-> FALSE]

PushTris(b, tris) == [b EXCEPT !.triVert = @ \o tris]

BaryAt(b, i) == IF InRange(b.vertBary, i) THEN At(b.vertBary, i) ELSE <<0, 0, 0, 1>>

PartitionFan(b, cornerVerts, added, edgeOffset) ==
  LET n    == Max(added, 0)
      fan  == [i \in 1..n |->
                 <<IF i = 1 THEN At(cornerVerts, 0) ELSE edgeOffset + i - 2,
                   edgeOffset + i - 1,
                   At(cornerVerts, 2)>>]
      last == IF n = 0 THEN At(cornerVerts, 0) ELSE edgeOffset + n - 1
  IN  PushTris(b, fan \o << <<last, At(cornerVerts, 1), At(cornerVerts, 2)>> >>)

\* GetEdgeVert counting up from the offset whatever the edge's direction
GetEdgeVertUp(edgeOffsets, edgeFwd, edge, idx) ==
  At(edgeOffsets, edge) + idx

\* lines 392-394: the idx-th vertex along a side of the quad
GetEdgeVert(edgeOffsets, edgeFwd, edge, idx) ==
  At(edgeOffsets, edge) + (IF At(edgeFwd, edge) THEN 1 ELSE -1) * idx

\* lines 399-410: the first corner whose two sides have nothing added
QuadCorner(edgeAdded) ==
  LET zs == {i \in 0..3 : At(edgeAdded, i) = 0 /\ At(edgeAdded, (i + 3) % 4) = 0}
  IN  IF zs = {} THEN -1 ELSE CHOOSE i \in zs : \A k \in zs : i <= k

\* lines 399-410: the only side with added vertices, -1 if none, -2 if several
QuadMaxEdge(edgeAdded) ==
  LET ps == {i \in 0..3 : At(edgeAdded, i) > 0}
  IN  IF ps = {} THEN -1
      ELSE IF Cardinality(ps) = 1 THEN CHOOSE i \in ps : TRUE
      ELSE -2

\* lines 412-428: zig-zag across the single subdivided side
QuadTerminalStrip(b, cornerVerts, edgeOffsets, edgeAdded, edgeFwd, maxEdge) ==
  LET edge(k) == (k + maxEdge) % 4
      n       == At(edgeAdded, maxEdge)
      middle  == n \div 2
      ev(i)   == GetEdgeVert(edgeOffsets, edgeFwd, maxEdge, i)
      cv(k)   == At(cornerVerts, edge(k))
      first   == << <<cv(2), cv(3), ev(middle)>> >>
      up      == [k \in 1..(middle + 1) |->
                    <<cv(3), IF k = 1 THEN cv(0) ELSE ev(k - 2), ev(k - 1)>>]
      down    == [k \in 1..(n - middle) |->
                    <<cv(2), ev(n - k), IF k = 1 THEN cv(1) ELSE ev(n - k + 1)>>]
  IN  PushTris(b, first \o up \o down)

\* lines 431-448: one pass (j = 1 or 2) of the fan from the free corner
QuadFanSide(acc, cornerVerts, edgeOffsets, edgeAdded, edgeFwd, corner, j) ==
  LET side     == (corner + j) % 4
      n        == At(edgeAdded, side)
      ev(i)    == GetEdgeVert(edgeOffsets, edgeFwd, side, i)
      bridge   == j = 2 /\ n > 0
      pre      == IF bridge
                  THEN << <<At(cornerVerts, side), ev(0), acc.sideVert>> >>
                  ELSE << >>
      sv0      == IF bridge THEN acc.sideVert ELSE At(cornerVerts, side)
      run      == [k \in 1..n |->
                     <<At(cornerVerts, corner),
                       IF k = 1 THEN sv0 ELSE ev(k - 2), ev(k - 1)>>]
      sv1      == IF n = 0 THEN sv0 ELSE ev(n - 1)
      post     == IF j = 2 \/ n = 0
                  THEN << <<At(cornerVerts, corner), sv1,
                            At(cornerVerts, (corner + j + 1) % 4)>> >>
                  ELSE << >>
  IN  [tris |-> acc.tris \o pre \o run \o post, sideVert |-> sv1]

QuadTerminalFan(b, cornerVerts, edgeOffsets, edgeAdded, edgeFwd, corner) ==
  LET a0 == [tris |-> << >>, sideVert |-> At(cornerVerts, 0)]
      a1 == QuadFanSide(a0, cornerVerts, edgeOffsets, edgeAdded, edgeFwd, corner, 1)
      a2 == QuadFanSide(a1, cornerVerts, edgeOffsets, edgeAdded, edgeFwd, corner, 2)
  IN  PushTris(b, a2.tris)

\* a QuadRow that adds no vertex
QuadRowEmpty(b, from, to, added) == b

\* lines 477-481: the row of vertices interpolated between the two corners
QuadRow(b, from, to, added) ==
  LET ok  == InRange(b.vertBary, from) /\ InRange(b.vertBary, to)
      row == Bind(<<BaryAt(b, from), BaryAt(b, to)>>, LAMBDA ft :
               [j \in 1..added |-> Mix(ft[1], ft[2], j, added + 1)])
  IN  [b EXCEPT !.vertBary = @ \o row, !.oob = @ \/ (added > 0 /\ ~ok)]

RECURSIVE PartitionQuad(_, _, _, _, _)
RECURSIVE QuadBands(_, _, _, _, _, _, _)

\* lines 460-492: band i of the recursive split; q holds the four new* locals
QuadBands(b, q, i, partitions, edgeOffsets, edgeAdded, edgeFwd) ==
  IF i >= partitions \/ b.neg THEN [b |-> b, q |-> q]
  ELSE
    LET cornerOffset1 == (At(edgeAdded, 1) * i) \div partitions
        cornerOffset3 == At(edgeAdded, 3) - 1 - (At(edgeAdded, 3) * i) \div partitions
        nextOffset1   == GetEdgeVert(edgeOffsets, edgeFwd, 1, cornerOffset1 + 1)
        nextOffset3   == GetEdgeVert(edgeOffsets, edgeFwd, 3, cornerOffset3 + 1)
        added         == Round(At(edgeAdded, 0) * (partitions - i) + At(edgeAdded, 2) * i,
                               partitions)
        cv1           == GetEdgeVert(edgeOffsets, edgeFwd, 1, cornerOffset1)
        cv2           == GetEdgeVert(edgeOffsets, edgeFwd, 3, cornerOffset3)
        q1 == [cornerVerts |-> <<At(q.cornerVerts, 0), cv1, cv2, At(q.cornerVerts, 3)>>,
               edgeAdded   |-> <<Abs(nextOffset1 - At(q.edgeOffsets, 0)) - 1,
                                 added,
                                 Abs(nextOffset3 - At(q.edgeOffsets, 2)) - 1,
                                 At(q.edgeAdded, 3)>>,
               edgeOffsets |-> <<At(q.edgeOffsets, 0), Len(b.vertBary), nextOffset3,
                                 At(q.edgeOffsets, 3)>>,
               edgeFwd     |-> q.edgeFwd]
        q2(p) == [cornerVerts |-> <<cv1, cv1, cv2, cv2>>,
                  edgeAdded   |-> <<At(p.edgeAdded, 0), added, At(p.edgeAdded, 2), added>>,
                  edgeOffsets |-> <<nextOffset1, At(p.edgeOffsets, 1), nextOffset3,
                                    At(p.edgeOffsets, 1) + added - 1>>,
                  edgeFwd     |-> <<At(q.edgeFwd, 0), At(q.edgeFwd, 1), At(q.edgeFwd, 2), FALSE>>]
    IN  Bind(q1, LAMBDA p :
          Bind(PartitionQuad(QuadRow(b, cv1, cv2, added),
                             p.cornerVerts, p.edgeOffsets, p.edgeAdded, p.edgeFwd),
               LAMBDA b2 :
                 Bind(q2(p), LAMBDA pq :
                   QuadBands(b2, pq, i + 1, partitions, edgeOffsets, edgeAdded, edgeFwd))))

PartitionQuad(b, cornerVerts, edgeOffsets, edgeAdded, edgeFwd) ==
  IF b.neg THEN b
  ELSE IF \E i \in 1..4 : edgeAdded[i] < 0 THEN [b EXCEPT !.neg = TRUE]
  ELSE
    LET corner  == QuadCorner(edgeAdded)
        maxEdge == QuadMaxEdge(edgeAdded)
    IN  IF corner >= 0
        THEN IF maxEdge >= 0
             THEN QuadTerminalStrip(b, cornerVerts, edgeOffsets, edgeAdded, edgeFwd, maxEdge)
             ELSE QuadTerminalFan(b, cornerVerts, edgeOffsets, edgeAdded, edgeFwd, corner)
        ELSE
          LET partitions == 1 + Min(At(edgeAdded, 1), At(edgeAdded, 3))
              q0 == [cornerVerts |-> <<At(cornerVerts, 1), -1, -1, At(cornerVerts, 0)>>,
                     edgeOffsets |-> <<At(edgeOffsets, 1), -1,
                                       GetEdgeVert(edgeOffsets, edgeFwd, 3, At(edgeAdded, 3) + 1),
                                       At(edgeOffsets, 0)>>,
                     edgeAdded   |-> <<0, -1, 0, At(edgeAdded, 0)>>,
                     edgeFwd     |-> <<At(edgeFwd, 1), TRUE, At(edgeFwd, 3), At(edgeFwd, 0)>>]
              lastCornerVerts(q) == <<At(q.cornerVerts, 0), At(cornerVerts, 2),
                                   At(cornerVerts, 3), At(q.cornerVerts, 3)>>
              lastEdgeAdded(q)   == <<At(edgeAdded, 1) - Abs(At(q.edgeOffsets, 0) - At(edgeOffsets, 1)),
                                   At(edgeAdded, 2),
                                   Abs(At(q.edgeOffsets, 2) - At(edgeOffsets, 3)) - 1,
                                   At(q.edgeAdded, 3)>>
              lastEdgeOffsets(q) == <<At(q.edgeOffsets, 0), At(edgeOffsets, 2),
                                   At(edgeOffsets, 3), At(q.edgeOffsets, 3)>>
              lastEdgeFwd(q)     == <<At(q.edgeFwd, 0), At(edgeFwd, 2), At(q.edgeFwd, 2),
                                   At(q.edgeFwd, 3)>>
          IN  Bind(QuadBands(b, q0, 1, partitions, edgeOffsets, edgeAdded, edgeFwd),
                   LAMBDA r :
                     PartitionQuad(r.b, lastCornerVerts(r.q), lastEdgeOffsets(r.q),
                                   lastEdgeAdded(r.q), lastEdgeFwd(r.q)))

\* EdgeBary with the fraction of an inserted vertex counted from the far end
EdgeBaryFromEnd(n) ==
  LET corner == << <<1, 0, 0, 1>>, <<0, 1, 0, 1>>, <<0, 0, 1, 1>> >>
      edge(i) == [j \in 1..(At(n, i) - 1) |->
                    Mix(At(corner, (i + 1) % 3), At(corner, i), j, At(n, i))]
  IN  corner \o edge(0) \o edge(1) \o edge(2)

\* lines 301-310: the corners, then the inserted vertices of edges 0, 1, 2
EdgeBary(n) ==
  LET corner == << <<1, 0, 0, 1>>, <<0, 1, 0, 1>>, <<0, 0, 1, 1>> >>
      edge(i) == [j \in 1..(At(n, i) - 1) |->
                    Mix(At(corner, i), At(corner, (i + 1) % 3), j, At(n, i))]
  IN  corner \o edge(0) \o edge(1) \o edge(2)

\* line 320: n[1]^2 > f - sqrt(2) n[0] n[2], with f = n[2]^2 + n[0]^2 >= n[1]^2
Acuteish(n) ==
  LET g == At(n, 2) * At(n, 2) + At(n, 0) * At(n, 0) - At(n, 1) * At(n, 1)
  IN  IF g < 0 THEN TRUE ELSE g * g < 2 * At(n, 0) * At(n, 0) * At(n, 2) * At(n, 2)

\* SplitNs without the limit n[0] - 2
SplitNsUnlimited(n) ==
  Round(At(n, 2) * At(n, 2) + At(n, 0) * At(n, 0) - At(n, 1) * At(n, 1), 2 * At(n, 0))

\* lines 329-330: portion of n[0] under n[2]
SplitNs(n) ==
  LET g == At(n, 2) * At(n, 2) + At(n, 0) * At(n, 0) - At(n, 1) * At(n, 1)
  IN  Min(At(n, 0) - 2, Round(g, 2 * At(n, 0)))

\* line 332: height from n[0]; sqrt of a negative number is NaN, and
\* glm::max(1., NaN) = (1. < NaN) ? NaN : 1. = 1
SplitNh(n, ns) ==
  LET d == At(n, 2) * At(n, 2) - ns * ns
  IN  IF d < 0 THEN 1 ELSE Max(1, RoundSqrt(d))

\* lines 299-368 of GetCachedPartition: the construction on a cache miss
BuildPartition(n) ==
  LET e0 == 3
      e1 == 3 + At(n, 0) - 1
      e2 == 3 + At(n, 0) - 1 + At(n, 1) - 1
      b0 == NewBuild(EdgeBary(n), << >>)
      T4 == <<TRUE, TRUE, TRUE, TRUE>>
  IN
  IF At(n, 1) = 1
  THEN IF At(n, 0) = 1
       THEN PushTris(b0, << <<0, 1, 2>> >>)
       ELSE PartitionFan(b0, <<0, 1, 2>>, At(n, 0) - 1, e0)
  ELSE IF Acuteish(n)
  THEN PartitionQuad(PushTris(b0, << <<e1 - 1, 1, e1>> >>),
                     <<e1 - 1, e1, 2, 0>>,
                     <<-1, e1 + 1, e2, e0>>,
                     <<0, At(n, 1) - 2, At(n, 2) - 1, At(n, 0) - 2>>, T4)
  ELSE
    LET ns == SplitNs(n)
        nh == SplitNh(n, ns)
        hOffset == Len(b0.vertBary)
        okMid == InRange(b0.vertBary, e0 + ns - 1)
        middleBary == BaryAt(b0, e0 + ns - 1)
        split == [j \in 1..(nh - 1) |-> Mix(At(b0.vertBary, 2), middleBary, j, nh)]
        b1 == [b0 EXCEPT !.vertBary = @ \o split, !.oob = ~okMid]
    IN  Bind(PartitionQuad(PushTris(b1, << <<e1 - 1, 1, e1>> >>),
                           <<e1 - 1, e1, 2, e0 + ns - 1>>,
                           <<-1, e1 + 1, hOffset, e0 + ns>>,
                           <<0, At(n, 1) - 2, nh - 1, At(n, 0) - ns - 2>>, T4),
             LAMBDA b2 :
        IF b2.neg THEN b2
        ELSE IF At(n, 2) = 1
        THEN PartitionFan(b2, <<0, e0 + ns - 1, 2>>, ns - 1, e0)
        ELSE IF ns = 1
        THEN PartitionQuad(PushTris(b2, << <<hOffset, 2, e2>> >>),
                           <<hOffset, e2, 0, e0>>,
                           <<-1, e2 + 1, -1, hOffset + nh - 2>>,
                           <<0, At(n, 2) - 2, ns - 1, nh - 2>>,
                           <<TRUE, TRUE, TRUE, FALSE>>)
        ELSE PartitionQuad(PushTris(b2, << <<hOffset - 1, 0, e0>> >>),
                           <<hOffset - 1, e0, e0 + ns - 1, 2>>,
                           <<-1, e0 + 1, hOffset + nh - 2, e2>>,
                           <<0, ns - 2, nh - 1, At(n, 2) - 2>>,
                           <<TRUE, TRUE, FALSE, TRUE>>))

NoPartition == [idx |-> << >>, sortedDivisions |-> << >>, vertBary |-> << >>,
                triVert |-> << >>, neg |-> FALSE, oob |-> FALSE]

\* a Partition object as stored in the cache (idx is not yet meaningful)
MakePartition(n) ==
  Bind(BuildPartition(n), LAMBDA b :
    [idx |-> <<0, 0, 0>>, sortedDivisions |-> n,
     vertBary |-> b.vertBary, triVert |-> b.triVert, neg |-> b.neg, oob |-> b.oob])

InteriorOffset(p) ==
  At(p.sortedDivisions, 0) + At(p.sortedDivisions, 1) + At(p.sortedDivisions, 2)

NumInterior(p) == Len(p.vertBary) - InteriorOffset(p)

Swap(s, i, j) == [s EXCEPT ![i + 1] = At(s, j), ![j + 1] = At(s, i)]

\* SortDivisions without the third swap, nested in the second
SortDivisionsTwoSwaps(divisions) ==
  LET s0 == [div |-> divisions, idx |-> <<0, 1, 2>>]
      s1 == IF At(s0.div, 2) > At(s0.div, 1)
            THEN [div |-> Swap(s0.div, 2, 1), idx |-> Swap(s0.idx, 2, 1)] ELSE s0
  IN  IF At(s1.div, 1) > At(s1.div, 0)
      THEN [div |-> Swap(s1.div, 1, 0), idx |-> Swap(s1.idx, 1, 0)] ELSE s1

\* SortDivisions swapping the divisions but not triIdx
SortDivisionsOnly(divisions) ==
  LET s1 == IF At(divisions, 2) > At(divisions, 1) THEN Swap(divisions, 2, 1) ELSE divisions
      s2 == IF At(s1, 1) > At(s1, 0) THEN Swap(s1, 1, 0) ELSE s1
      s3 == IF At(s1, 1) > At(s1, 0) /\ At(s2, 2) > At(s2, 1) THEN Swap(s2, 2, 1) ELSE s2
  IN  [div |-> s3, idx |-> <<0, 1, 2>>]

\* lines 220-233 of GetPartition: the three conditional swaps
SortDivisions(divisions) ==
  LET s0 == [div |-> divisions, idx |-> <<0, 1, 2>>]
      s1 == IF At(s0.div, 2) > At(s0.div, 1)
            THEN [div |-> Swap(s0.div, 2, 1), idx |-> Swap(s0.idx, 2, 1)] ELSE s0
      s2 == IF At(s1.div, 1) > At(s1.div, 0)
            THEN [div |-> Swap(s1.div, 1, 0), idx |-> Swap(s1.idx, 1, 0)] ELSE s1
      s3 == IF At(s1.div, 1) > At(s1.div, 0) /\ At(s2.div, 2) > At(s2.div, 1)
            THEN [div |-> Swap(s2.div, 2, 1), idx |-> Swap(s2.idx, 2, 1)] ELSE s2
  IN  s3

\* a Reindex that hands back the partition's own triangles, not renumbered
ReindexLocal(p, tri, edgeOffsets, edgeFwd, interiorOffset) == p.triVert

\* lines 241-279: renumber the partition's vertices to the ids of the
\* containing triangle and rewrite its triangles with the source winding
Reindex(p, tri, edgeOffsets, edgeFwd, interiorOffset) ==
  LET idx     == p.idx
      flip    == At(idx, 1) # Next3(At(idx, 0))
      triIdx  == IF flip THEN <<At(idx, 2), At(idx, 0), At(idx, 1)>> ELSE idx
      fwd     == IF flip THEN [i \in 1..3 |-> ~edgeFwd[i]] ELSE edgeFwd
      outTri  == IF flip THEN <<1, 0, 2>> ELSE <<0, 1, 2>>
      corners == [i \in 1..3 |-> At(tri, triIdx[i])]
      edge(i) == LET n      == At(p.sortedDivisions, i) - 1
                     f      == At(fwd, At(idx, i))
                     offset == At(edgeOffsets, At(idx, i)) + (IF f THEN 0 ELSE n - 1)
                 IN  [j \in 1..n |-> offset + (IF f THEN 1 ELSE -1) * (j - 1)]
      onEdges == corners \o edge(0) \o edge(1) \o edge(2)
      place(j) == CHOOSE k \in 0..2 : At(outTri, k) = j
  IN  Bind(onEdges, LAMBDA start :
        LET offset == interiorOffset - Len(start)
        IN  Bind(start \o [k \in 1..(Len(p.vertBary) - Len(start)) |->
                             Len(start) + k - 1 + offset],
                 LAMBDA newVerts :
                   [t \in 1..Len(p.triVert) |->
                      [j \in 1..3 |->
                         LET v == At(p.triVert[t], place(j - 1))
                         IN  IF InRange(newVerts, v) THEN At(newVerts, v) ELSE -1]]))

----------------------------------------------------------------------------
(* The process-wide partition cache: a function from sorted triples to the *)
(* stored Partition objects.                                               *)

EmptyCache == [n \in {} |-> NoPartition]

\* lines 294-295: cache.find(n) != cache.end()
CacheFind(c, n) == n \in DOMAIN c

\* an insertion that replaces an existing entry (insert_or_assign)
CacheInsertOrAssign(c, n, p) ==
  [k \in DOMAIN c \cup {n} |-> IF k = n THEN p ELSE c[k]]

\* line 371: unordered_map::insert leaves an existing entry alone
CacheInsert(c, n, p) ==
  IF n \in DOMAIN c THEN c
  ELSE [k \in DOMAIN c \cup {n} |-> IF k = n THEN p ELSE c[k]]

\* lines 291-373: a hit returns a copy of the stored partition, a miss
\* constructs one, stores it and returns it
GetCachedPartition(c, n) ==
  IF CacheFind(c, n)
  THEN [partition |-> c[n], cache |-> c]
  ELSE Bind(MakePartition(n), LAMBDA p :
         [partition |-> p, cache |-> CacheInsert(c, n, p)])

\* lines 219-239
GetPartition(c, div) ==
  Bind(SortDivisions(div), LAMBDA s :
    Bind(GetCachedPartition(c, s.div), LAMBDA r :
      [partition |-> [r.partition EXCEPT !.idx = s.idx], cache |-> r.cache]))

----------------------------------------------------------------------------
(* The half-edge mesh substrate (impl.h, shared.h)                         *)

\* Halfedge records of a triangle list: half-edge 3t+i runs from corner i of
\* triangle t to corner i+1 and is paired with the half-edge running back
CreateHalfedges(triVerts) ==
  LET numHalfedge == 3 * Len(triVerts)
      ends == [h \in 1..numHalfedge |->
                 <<At(triVerts[((h - 1) \div 3) + 1], (h - 1) % 3),
                   At(triVerts[((h - 1) \div 3) + 1], Next3((h - 1) % 3))>>]
      from(e) == [v \in {e[k][1] : k \in 1..numHalfedge} |->
                    {k \in 1..numHalfedge : e[k][1] = v}]
      back(e, out, h) == IF e[h][2] \in DOMAIN out
                         THEN {k \in out[e[h][2]] : e[k][2] = e[h][1]}
                         ELSE {}
  IN  Bind(ends, LAMBDA e :
        Bind(from(e), LAMBDA out :
          [h \in 1..numHalfedge |->
             [startVert |-> e[h][1], endVert |-> e[h][2],
              pairedHalfedge |->
                Bind(back(e, out, h), LAMBDA pairs :
                  IF pairs = {} THEN -1
                  ELSE (CHOOSE k \in pairs : \A m \in pairs : k <= m) - 1),
              face |-> (h - 1) \div 3]]))

IsForward(h) == h.startVert < h.endVert

NextHalfedge(current) == IF (current + 1) % 3 = 0 THEN current - 2 ELSE current + 1

\* the indices of the forward half-edges from e on, in increasing order
RECURSIVE ForwardHalfedges(_, _)
ForwardHalfedges(halfedge, e) ==
  IF e >= Len(halfedge) THEN << >>
  ELSE (IF IsForward(At(halfedge, e)) THEN <<e>> ELSE << >>)
       \o ForwardHalfedges(halfedge, e + 1)

\* one TmpEdge per forward half-edge, in half-edge order
CreateTmpEdges(halfedge) ==
  LET ids == ForwardHalfedges(halfedge, 0)
  IN  [k \in 1..Len(ids) |->
         [first |-> At(halfedge, ids[k]).startVert,
          second |-> At(halfedge, ids[k]).endVert,
          halfedgeIdx |-> ids[k]]]

RECURSIVE SumSeq(_, _)
SumSeq(s, n) == IF n = 0 THEN 0 ELSE s[n] + SumSeq(s, n - 1)

\* exclusive_scan(s, init)
ExclusiveScan(s, init) ==
  Bind(s, LAMBDA x : [i \in 1..Len(x) |-> init + SumSeq(x, i - 1)])

\* the concatenation of a sequence of sequences
RECURSIVE ConcatTo(_, _)
ConcatTo(ss, n) == IF n = 0 THEN << >> ELSE ConcatTo(ss, n - 1) \o ss[n]

Concat(ss) == Bind(ss, LAMBDA x : ConcatTo(x, Len(x)))

----------------------------------------------------------------------------
(* Manifold::Impl: a mesh is the record of the fields the core touches.    *)
(* Positions are rational points <<x, y, z, d>>, property values are       *)
(* rationals <<n, d>>.                                                     *)

NumVert(m) == Len(m.vertPos)

NumTri(m) == Len(m.halfedge) \div 3

\* Impl::NumPropVert: one property vertex per vertex while there is no channel
NumPropVert(m) ==
  IF m.numProp = 0 THEN NumVert(m) ELSE Len(m.properties) \div m.numProp

IsEmpty(m) == NumVert(m) = 0

Q(n, d) == LET g == GCD(Abs(n), d) IN IF g = 0 THEN <<0, 1>> ELSE <<n \div g, d \div g>>

QAdd(a, b) == Q(a[1] * b[2] + b[1] * a[2], a[2] * b[2])

QMul(a, b) == Q(a[1] * b[1], a[2] * b[2])

\* glm::dot(triProp, uvw) for three rationals and a barycentric
QDot(triProp, uvw) ==
  QAdd(QAdd(QMul(triProp[1], <<uvw[1], uvw[4]>>), QMul(triProp[2], <<uvw[2], uvw[4]>>)),
       QMul(triProp[3], <<uvw[3], uvw[4]>>))

\* a position known as a rational point <<x, y, z, d>>, not one kept as a term
IsPoint(p) == Len(p) = 4

\* triPos * uvw: the barycentric combination of three points; where a corner
\* is a term, the corner itself for weights 1, 0, 0 and else the term of the
\* combination
BaryPoint(triPos, uvw) ==
  LET p0 == triPos[1]
      p1 == triPos[2]
      p2 == triPos[3]
      c(k) == uvw[1] * p0[k] * p1[4] * p2[4] + uvw[2] * p1[k] * p0[4] * p2[4]
              + uvw[3] * p2[k] * p0[4] * p1[4]
      ones == {i \in 1..3 : uvw[i] = uvw[4]}
  IN  IF \A i \in 1..3 : IsPoint(triPos[i])
      THEN Vec3Q(c(1), c(2), c(3), uvw[4] * p0[4] * p1[4] * p2[4])
      ELSE IF ones # {} THEN triPos[CHOOSE i \in ones : TRUE]
      ELSE <<"mix", p0, p1, p2, uvw>>

Basis(i) == [k \in 1..4 |-> IF k = i + 1 \/ k = 4 THEN 1 ELSE 0]

\* Barycentric(): the value-initialised element of a Vec<Barycentric>
NoBary == [tri |-> 0, uvw |-> <<0, 0, 0, 1>>]

\* FillRetainedVerts setting the weight of the corner after the vertex's own
FillRetainedVertsNext(numVert, halfedge) ==
  [v \in 1..numVert |->
     LET es == {e \in 0..(Len(halfedge) - 1) : At(halfedge, e).startVert = v - 1}
     IN  IF es = {} THEN NoBary
         ELSE LET e == CHOOSE x \in es : \A y \in es : y <= x
              IN  [tri |-> e \div 3, uvw |-> Basis(Next3(e % 3))]]

\* lines 42-52: whichever half-edge starting at the vertex comes last wins
FillRetainedVerts(numVert, halfedge) ==
  [v \in 1..numVert |->
     LET es == {e \in 0..(Len(halfedge) - 1) : At(halfedge, e).startVert = v - 1}
     IN  IF es = {} THEN NoBary
         ELSE LET e == CHOOSE x \in es : \A y \in es : y <= x
              IN  [tri |-> e \div 3, uvw |-> Basis(e % 3)]]

\* lines 75-86 and 993-994: half2Edge
Half2Edge(edges, halfedge) ==
  [h \in 1..(2 * Len(edges)) |->
     LET ks == {k \in 0..(Len(edges) - 1) :
                  \/ At(edges, k).halfedgeIdx = h - 1
                  \/ At(halfedge, At(edges, k).halfedgeIdx).pairedHalfedge = h - 1}
     IN  IF ks = {} THEN -1 ELSE CHOOSE k \in ks : \A m \in ks : m <= k]

\* lines 1018-1028 and 1153-1170: the barycentric of the i-th of n vertices
\* inserted on the edge leaving corner halfedgeIdx % 3
EdgeUvw(halfedgeIdx, i, n) ==
  LET v0 == halfedgeIdx % 3
      v1 == Next3(v0)
      c(k) == IF k = v1 THEN i + 1 ELSE IF k = v0 THEN n + 1 - (i + 1) ELSE 0
  IN  Vec3Q(c(0), c(1), c(2), n + 1)

\* TriEdgeFwd taking every half-edge as forward
TriEdgeFwdAll(halfedge, t) == <<TRUE, TRUE, TRUE>>

\* lines 1063-1070: edgeFwd, the directions of the three half-edges of triangle t
TriEdgeFwd(halfedge, t) ==
  [i \in 1..3 |-> IsForward(At(halfedge, 3 * (t - 1) + i - 1))]

\* lines 1031-1040: the partitions of the triangles, fetched through the cache
RECURSIVE GetPartitions(_, _, _)
GetPartitions(c, divs, numTri) ==
  IF numTri = 0 THEN [subTris |-> << >>, cache |-> c]
  ELSE Bind(GetPartitions(c, divs, numTri - 1), LAMBDA r :
         Bind(GetPartition(r.cache, divs[numTri]), LAMBDA g :
           [subTris |-> Append(r.subTris, g.partition), cache |-> g.cache]))

\* lines 987-1214, with edgeAdded the results of the edgeDivisions callback
\* the test that looks at the end of the paired half-edge only
PropsDifferAtEnd(triProperties, tri, i, pairTri, j) ==
  At(triProperties[pairTri + 1], Next3(j)) # At(triProperties[tri + 1], i)

\* lines 1190-1193: the two triangles at half-edge i of tri (paired with
\* half-edge j of pairTri) reference different property vertices at an end
PropsDiffer(triProperties, tri, i, pairTri, j) ==
  \/ At(triProperties[pairTri + 1], j) # At(triProperties[tri + 1], Next3(i))
  \/ At(triProperties[pairTri + 1], Next3(j)) # At(triProperties[tri + 1], i)

Subdivide(m, edgeAdded, c) ==
  Bind(CreateTmpEdges(m.halfedge), LAMBDA edges :
  Bind(Half2Edge(edges, m.halfedge), LAMBDA half2Edge :
  Bind(ExclusiveScan(edgeAdded, NumVert(m)), LAMBDA edgeOffset :
  Bind(GetPartitions(c, [t \in 1..NumTri(m) |->
                           [i \in 1..3 |->
                              At(edgeAdded, At(half2Edge, 3 * (t - 1) + i - 1)) + 1]],
                     NumTri(m)), LAMBDA got :
  LET halfedge_  == m.halfedge
      numEdge    == Len(edges)
      numVert    == NumVert(m)
      size1      == At(edgeOffset, numEdge - 1) + At(edgeAdded, numEdge - 1)
      edgeBary   == Concat([k \in 1..numEdge |->
                              [i \in 1..edgeAdded[k] |->
                                 [tri |-> edges[k].halfedgeIdx \div 3,
                                  uvw |-> EdgeUvw(edges[k].halfedgeIdx, i - 1, edgeAdded[k])]]])
      numTri     == NumTri(m)
      subTris    == got.subTris
      interior(t) ==
        LET idx  == subTris[t].idx
            vIdx == IF At(idx, 1) = Next3(At(idx, 0)) THEN idx
                    ELSE <<At(idx, 2), At(idx, 0), At(idx, 1)>>
            rIdx == [k \in 1..3 |-> CHOOSE i \in 0..2 : At(vIdx, i) = k - 1]
            io   == InteriorOffset(subTris[t])
        IN  [k \in 1..NumInterior(subTris[t]) |->
               LET bary == subTris[t].vertBary[io + k]
               IN  [tri |-> t - 1,
                    uvw |-> <<At(bary, rIdx[1]), At(bary, rIdx[2]), At(bary, rIdx[3]), bary[4]>>]]
  IN
  Bind(ExclusiveScan([t \in 1..numTri |-> NumInterior(subTris[t])], size1),
       LAMBDA interiorOffset :
  Bind(FillRetainedVerts(numVert, halfedge_) \o edgeBary
         \o Concat([t \in 1..numTri |-> interior(t)]), LAMBDA vertBary :
  LET tri3(t)    == [i \in 1..3 |-> At(halfedge_, 3 * (t - 1) + i - 1).startVert]
      offs(t)    == [i \in 1..3 |-> At(edgeOffset, At(half2Edge, 3 * (t - 1) + i - 1))]
      fwds(t)    == TriEdgeFwd(halfedge_, t)
      newTris(t) == Reindex(subTris[t], tri3(t), offs(t), fwds(t), interiorOffset[t])
      triVerts   == Concat([t \in 1..numTri |-> newTris(t)])
      triRef     == Concat([t \in 1..numTri |->
                              [k \in 1..Len(subTris[t].triVert) |-> m.triRef[t]]])
      newVertPos == [v \in 1..Len(vertBary) |->
                       BaryPoint([i \in 1..3 |->
                                    At(m.vertPos,
                                       At(halfedge_, 3 * vertBary[v].tri + i - 1).startVert)],
                                 vertBary[v].uvw)]
      \* lines 1115-1209
      numPropVert == NumPropVert(m)
      addedVerts  == Len(vertBary) - numVert
      propOffset  == numPropVert - numVert
      cell(row, q) == At(m.properties, row * m.numProp + q)
      interp(tri, uvw) ==
        [q \in 1..m.numProp |->
           QDot([j \in 1..3 |-> cell(At(m.triProperties[tri + 1], j - 1), q - 1)], uvw)]
      rowsAdded == [k \in 1..addedVerts |->
                      interp(vertBary[numVert + k].tri, vertBary[numVert + k].uvw)]
      rowsEdge  == Concat([k \in 1..numEdge |->
                             [i \in 1..edgeAdded[k] |->
                                LET pair == At(halfedge_, edges[k].halfedgeIdx).pairedHalfedge
                                IN  interp(pair \div 3, EdgeUvw(pair, i - 1, edgeAdded[k]))]])
      prop      == m.properties \o Concat(rowsAdded) \o Concat(rowsEdge)
      propEdge(t, i) ==
        LET h    == At(halfedge_, 3 * (t - 1) + i)
            base == At(edgeOffset, At(half2Edge, 3 * (t - 1) + i))
            pairTri == h.pairedHalfedge \div 3
            j    == h.pairedHalfedge % 3
            differ == PropsDiffer(m.triProperties, t - 1, i, pairTri, j)
        IN  IF IsForward(h) THEN [offset |-> base, fwd |-> TRUE]
            ELSE IF differ THEN [offset |-> base + addedVerts, fwd |-> TRUE]
            ELSE [offset |-> base, fwd |-> FALSE]
      propTris(t) == Reindex(subTris[t], m.triProperties[t],
                             [i \in 1..3 |-> propEdge(t, i - 1).offset + propOffset],
                             [i \in 1..3 |-> propEdge(t, i - 1).fwd],
                             interiorOffset[t] + propOffset)
      triProp   == Concat([t \in 1..numTri |-> propTris(t)])
  IN  [mesh |-> [m EXCEPT !.halfedge = CreateHalfedges(triVerts),
                          !.vertPos = newVertPos,
                          !.faceNormal = << >>,
                          !.triRef = triRef,
                          !.properties = IF m.numProp > 0 THEN prop ELSE @,
                          !.triProperties = IF m.numProp > 0 THEN triProp ELSE @],
       vertBary |-> vertBary,
       cache |-> got.cache]))))))

\* lines 145-160: at a corner InterpTri returns the corner position itself;
\* lines 162-199: elsewhere the position is the value of the Bezier patch of
\* triangle tri at uvw, kept as that term
InterpTri(oldMesh, bary) ==
  LET corners == [i \in 1..3 |->
                    At(oldMesh.vertPos, At(oldMesh.halfedge, 3 * bary.tri + i - 1).startVert)]
      ones    == {i \in 0..2 : At(bary.uvw, i) = bary.uvw[4]}
  IN  IF ones # {}
      THEN At(corners, CHOOSE i \in ones : \A k \in ones : i <= k)
      ELSE <<"patch", bary.tri, bary.uvw>>

\* InitializeOriginal: every triangle becomes its own original face
InitializeOriginal(m) ==
  [m EXCEPT !.triRef = [t \in 1..NumTri(m) |->
                          [meshID |-> m.originalID, originalID |-> m.originalID, tri |-> t - 1]]]

\* Finish: the mesh repair after refinement keeps the fields modelled here
Finish(m) == m

\* ClearTangents leaving the array as it is
KeepTangents(m) == m

\* line 1232: halfedgeTangent_.resize(0)
ClearTangents(m) == [m EXCEPT !.halfedgeTangent = << >>]

\* lines 1216-1234, with edgeAdded the results of the edgeDivisions callback
\* and nextID the id ReserveIDs(1) hands out
Refine(m, edgeAdded, c, nextID) ==
  IF IsEmpty(m) THEN [mesh |-> m, vertBary |-> << >>, cache |-> c, reserved |-> 0]
  ELSE
    Bind(Subdivide(m, edgeAdded, c), LAMBDA sub :
    LET old == m
        hasTangents == Len(old.halfedgeTangent) = Len(old.halfedge)
        interp == [sub.mesh EXCEPT
                     !.vertPos = [v \in 1..Len(sub.vertBary) |-> InterpTri(old, sub.vertBary[v])],
                     !.originalID = nextID]
        m1 == IF hasTangents THEN InitializeOriginal(interp) ELSE sub.mesh
    IN  IF Len(sub.vertBary) = 0
        THEN [mesh |-> sub.mesh, vertBary |-> sub.vertBary, cache |-> sub.cache, reserved |-> 0]
        ELSE [mesh |-> Finish(ClearTangents(m1)),
              vertBary |-> sub.vertBary, cache |-> sub.cache,
              reserved |-> IF hasTangents THEN 1 ELSE 0])

----------------------------------------------------------------------------
(* Normals as vertex properties: FlatFaces, VertFlatFace, SetNormals.      *)
(* Face and vertex normals are integer 3-vectors; a unit vector is kept as *)
(* the shortest integer vector of its direction, so that normalising is    *)
(* the reduction of a vector to that form.                                 *)

Dot(a, b) == a[1] * b[1] + a[2] * b[2] + a[3] * b[3]

Cross(a, b) ==
  <<a[2] * b[3] - a[3] * b[2], a[3] * b[1] - a[1] * b[3], a[1] * b[2] - a[2] * b[1]>>

\* a float that is not a number
NaN == <<0, 0>>

\* the vector from point c to point p, up to a positive factor
Direction(p, c) == [k \in 1..3 |-> p[k] * c[4] - c[k] * p[4]]

\* glm::normalize: the unit vector along v as property cells, NaN for v = 0
Normalize(v) ==
  LET g == GCD(GCD(Abs(v[1]), Abs(v[2])), Abs(v[3]))
  IN  IF g = 0 THEN <<NaN, NaN, NaN>> ELSE [k \in 1..3 |-> Q(v[k] \div g, 1)]

\* TriRef::SameFace
SameFace(a, b) == a.meshID = b.meshID /\ a.tri = b.tri

\* FlatStores without the stores to the neighbours
FlatStoresOwn(m, tri) ==
  LET neighborTri(j) == At(m.halfedge, At(m.halfedge, 3 * tri + j).pairedHalfedge).face
      same == {j \in 0..2 : SameFace(At(m.triRef, neighborTri(j)), At(m.triRef, tri))}
  IN  IF Cardinality(same) > 1 THEN <<tri>> ELSE << >>

\* lines 549-568: the slots of triIsFlatFace the closure of triangle tri stores
\* true to, in the order of the stores
FlatStores(m, tri) ==
  LET neighborTri(j) == At(m.halfedge, At(m.halfedge, 3 * tri + j).pairedHalfedge).face
      same == {j \in 0..2 : SameFace(At(m.triRef, neighborTri(j)), At(m.triRef, tri))}
      faceTris == SelectSeq(<<0, 1, 2>>, LAMBDA j : j \in same)
  IN  IF Cardinality(same) > 1
      THEN <<tri>> \o [k \in 1..Len(faceTris) |-> neighborTri(faceTris[k])]
      ELSE << >>

\* lines 543-571: the closures only ever store true, so the order in which
\* the bulk pass runs them makes no difference to the result
FlatFaces(m) ==
  LET neighborTri(tri, j) ==
        At(m.halfedge, At(m.halfedge, 3 * tri + j).pairedHalfedge).face
      sameFace(tri, j) == SameFace(At(m.triRef, neighborTri(tri, j)), At(m.triRef, tri))
      faceNeighbors(tri) == Cardinality({j \in 0..2 : sameFace(tri, j)})
      marks(tri) == IF faceNeighbors(tri) > 1
                    THEN {tri} \cup {neighborTri(tri, j) : j \in {i \in 0..2 : sameFace(tri, i)}}
                    ELSE {}
  IN  Bind(UNION {marks(tri) : tri \in 0..(NumTri(m) - 1)}, LAMBDA marked :
        [t \in 1..NumTri(m) |-> (t - 1) \in marked])

\* lines 579-588, from corner k = 3 * tri + j on
RECURSIVE VertFlatFaceFrom(_, _, _, _)
VertFlatFaceFrom(m, flatFaces, k, acc) ==
  IF k >= Len(m.halfedge) THEN acc.vertFlatFace
  ELSE
    LET tri  == k \div 3
        vert == At(m.halfedge, k).startVert
    IN  IF ~At(flatFaces, tri) \/ SameFace(At(acc.vertRef, vert), At(m.triRef, tri))
        THEN VertFlatFaceFrom(m, flatFaces, k + 1, acc)
        ELSE Bind([vertRef |-> [acc.vertRef EXCEPT ![vert + 1] = At(m.triRef, tri)],
                   vertFlatFace |-> [acc.vertFlatFace EXCEPT
                                       ![vert + 1] = IF @ = -1 THEN tri ELSE -2]],
                  LAMBDA a : VertFlatFaceFrom(m, flatFaces, k + 1, a))

\* lines 576-590
VertFlatFace(m, flatFaces) ==
  VertFlatFaceFrom(m, flatFaces, 0,
                   [vertFlatFace |-> [v \in 1..NumVert(m) |-> -1],
                    vertRef |-> [v \in 1..NumVert(m) |->
                                   [meshID |-> -1, originalID |-> -1, tri |-> -1]]])

\* glm::degrees(glm::acos(glm::dot(faceNormal_[tri1], faceNormal_[tri2]))) for
\* unit normals along the coordinate axes
Dihedral(m, tri1, tri2) ==
  LET d == Dot(At(m.faceNormal, tri1), At(m.faceNormal, tri2))
  IN  CASE d = 1 -> 0 [] d = 0 -> 90 [] d = -1 -> 180

\* lines 635-638, 705-708 and 726-729: the two triangles are not of one face
FaceSplit(m, flat, tri1, tri2) ==
  \/ At(flat, tri1) # At(flat, tri2)
  \/ /\ At(flat, tri1)
     /\ At(flat, tri2)
     /\ ~SameFace(At(m.triRef, tri1), At(m.triRef, tri2))

\* lines 623-646
VertNumSharp(m, flat, vertFlatFace, minSharpAngle) ==
  LET paired(e) == At(m.halfedge, e).pairedHalfedge
      counts(e, vert) ==
        IF Dihedral(m, e \div 3, paired(e) \div 3) > minSharpAngle THEN TRUE
        ELSE At(vertFlatFace, vert) = -2 /\ FaceSplit(m, flat, e \div 3, paired(e) \div 3)
  IN  Bind({e \in 0..(Len(m.halfedge) - 1) : IsForward(At(m.halfedge, e))}, LAMBDA fwd :
        [v \in 1..NumVert(m) |->
           Cardinality({e \in fwd : At(m.halfedge, e).startVert = v - 1 /\ counts(e, v - 1)})
           + Cardinality({e \in fwd : At(m.halfedge, e).endVert = v - 1 /\ counts(e, v - 1)})])

\* lines 704-708 and 725-729: the fan passes from one group to the next
FanBreak(m, flat, minSharpAngle, face, prevFace) ==
  Dihedral(m, face, prevFace) > minSharpAngle \/ FaceSplit(m, flat, face, prevFace)

\* the half-edges a loop  do { current = NextHalfedge(pair of current); ... }
\* while (current != stop)  visits, in order; the last one is stop
RECURSIVE FanFrom(_, _, _)
FanFrom(halfedge, current, stop) ==
  LET next == NextHalfedge(At(halfedge, current).pairedHalfedge)
  IN  IF next = stop THEN <<next>> ELSE <<next>> \o FanFrom(halfedge, next, stop)

Fan(halfedge, e) == FanFrom(halfedge, e, e)

\* lines 696-715: endEdge, the half-edge before the first group boundary
RECURSIVE FindEndEdge(_, _, _, _, _)
FindEndEdge(m, flat, minSharpAngle, current, startEdge) ==
  LET next == NextHalfedge(At(m.halfedge, current).pairedHalfedge)
  IN  IF FanBreak(m, flat, minSharpAngle, At(m.halfedge, next).face,
                  At(m.halfedge, current).face)
      THEN current
      ELSE IF next = startEdge THEN next
           ELSE FindEndEdge(m, flat, minSharpAngle, next, startEdge)

\* lines 736-738: the angle between two edge directions, in units of 45 degrees
Phi(prevEdgeVec, edgeVec) ==
  LET d  == Dot(prevEdgeVec, edgeVec)
      ll == Dot(prevEdgeVec, prevEdgeVec) * Dot(edgeVec, edgeVec)
  IN  CASE d = 0 -> 2
        [] d > 0 /\ d * d = ll -> 0
        [] d > 0 /\ 2 * d * d = ll -> 1
        [] d < 0 /\ 2 * d * d = ll -> 3
        [] d < 0 /\ d * d = ll -> 4

RECURSIVE SumVec(_, _)
SumVec(vs, n) ==
  IF n = 0 THEN <<0, 0, 0>>
  ELSE LET s == SumVec(vs, n - 1) IN [k \in 1..3 |-> s[k] + vs[n][k]]

\* lines 719-747: group, the group index of each corner of the fan ending at
\* endEdge, and normals, the normal of each group
FanGroups(m, flat, minSharpAngle, endEdge) ==
  Bind(Fan(m.halfedge, endEdge), LAMBDA fan :
    LET n         == Len(fan)
        centerPos == At(m.vertPos, At(m.halfedge, endEdge).startVert)
        prev(k)   == IF k = 1 THEN endEdge ELSE fan[k - 1]
        face(e)   == At(m.halfedge, e).face
        edgeVec(e) == Direction(At(m.vertPos, At(m.halfedge, e).endVert), centerPos)
        breaks    == {k \in 1..n : FanBreak(m, flat, minSharpAngle, face(fan[k]), face(prev(k)))}
    IN  Bind([k \in 1..n |-> Cardinality({b \in breaks : b <= k}) - 1], LAMBDA group :
          LET term(k) == [i \in 1..3 |->
                            At(m.faceNormal, face(fan[k]))[i]
                            * Phi(edgeVec(prev(k)), edgeVec(fan[k]))]
              sum(g)  == Bind([k \in 1..n |-> IF group[k] = g THEN term(k) ELSE <<0, 0, 0>>],
                              LAMBDA ts : SumVec(ts, n))
          IN  [fan |-> fan,
               group |-> group,
               normals |-> [g \in 1..Cardinality(breaks) |-> Normalize(sum(g - 1))]]))

\* std::copy of the old row of prop into row `row`, then the normal into the
\* three cells from normalIdx on (lines 683-688, 765-769, 774-778)
WriteRow(ctx, properties, row, prop, normal) ==
  [k \in 1..Len(properties) |->
     LET c == k - 1 - row * ctx.numProp
     IN  IF c < 0 \/ c >= ctx.numProp THEN properties[k]
         ELSE IF c >= ctx.normalIdx /\ c < ctx.normalIdx + 3 THEN At(normal, c - ctx.normalIdx)
         ELSE IF c < ctx.oldNumProp THEN At(ctx.oldProperties, prop * ctx.oldNumProp + c)
         ELSE properties[k]]

\* lines 675-689: one corner of the fan of a vertex without a crease
SmoothCorner(ctx, s, current, normal) ==
  LET thisTri == current \div 3
      j       == current - 3 * thisTri
      prop    == At(At(ctx.oldTriProp, thisTri), j)
  IN  IF prop = s.lastProp
      THEN [s EXCEPT !.triProperties[thisTri + 1][j + 1] = prop]
      ELSE [s EXCEPT !.triProperties[thisTri + 1][j + 1] = prop,
                     !.lastProp = prop,
                     !.properties = WriteRow(ctx, s.properties, prop, prop, normal)]

\* NeedsNewProp without the test that the group is a new one
NeedsNewPropInGroup(group, lastGroup, prop, lastProp) ==
  group # 0 /\ prop = lastProp

\* line 760
NeedsNewProp(group, lastGroup, prop, lastProp) ==
  group # lastGroup /\ group # 0 /\ prop = lastProp

\* lines 754-782: one corner of the fan of a creased vertex
CreasedCorner(ctx, s, current, group, normals) ==
  LET thisTri == current \div 3
      j       == current - 3 * thisTri
      prop    == At(At(ctx.oldTriProp, thisTri), j)
      numPropVert == Len(s.properties) \div ctx.numProp
      normal  == IF group < 0 THEN <<NaN, NaN, NaN>> ELSE At(normals, group)
      s1 == IF NeedsNewProp(group, s.lastGroup, prop, s.lastProp)
            THEN [s EXCEPT !.lastGroup = group,
                           !.newProp = numPropVert,
                           !.properties =
                              WriteRow(ctx, s.properties \o [c \in 1..ctx.numProp |-> Q(0, 1)],
                                       numPropVert, prop, normal)]
            ELSE IF prop # s.lastProp
            THEN [s EXCEPT !.lastProp = prop,
                           !.newProp = prop,
                           !.properties = WriteRow(ctx, s.properties, prop, prop, normal)]
            ELSE s
  IN  Bind(s1, LAMBDA t :
        [t EXCEPT !.triProperties[thisTri + 1][j + 1] = t.newProp,
                  !.cornerGroup[current + 1] = group])

\* the corners fan[k..] handled one after the other
RECURSIVE SmoothCorners(_, _, _, _, _)
SmoothCorners(ctx, s, fan, k, normal) ==
  IF k > Len(fan) THEN s
  ELSE Bind(SmoothCorner(ctx, s, fan[k], normal), LAMBDA t :
         SmoothCorners(ctx, t, fan, k + 1, normal))

RECURSIVE CreasedCorners(_, _, _, _)
CreasedCorners(ctx, s, groups, k) ==
  IF k > Len(groups.fan) THEN s
  ELSE Bind(CreasedCorner(ctx, s, groups.fan[k], groups.group[k], groups.normals), LAMBDA t :
         CreasedCorners(ctx, t, groups, k + 1))

\* lines 666-784: the fan of the vertex of corner startEdge; walks counts the
\* fans walked at each vertex
SetVertNormals(m, ctx, s, startEdge) ==
  LET vert == At(m.halfedge, startEdge).startVert
  IN  IF At(ctx.vertNumSharp, vert) < 2
      THEN LET n == IF At(ctx.vertFlatFace, vert) >= 0
                    THEN At(m.faceNormal, At(ctx.vertFlatFace, vert))
                    ELSE At(m.vertNormal, vert)
           IN  SmoothCorners(ctx, [s EXCEPT !.lastProp = -1, !.walks[vert + 1] = @ + 1],
                             Fan(m.halfedge, startEdge), 1, [i \in 1..3 |-> Q(n[i], 1)])
      ELSE Bind(FanGroups(m, ctx.triIsFlatFace, ctx.minSharpAngle,
                          FindEndEdge(m, ctx.triIsFlatFace, ctx.minSharpAngle,
                                      startEdge, startEdge)),
                LAMBDA groups :
                  CreasedCorners(ctx,
                                 [s EXCEPT !.lastGroup = 0, !.lastProp = -1, !.newProp = -1,
                                           !.walks[vert + 1] = @ + 1,
                                           !.emptyBack = @ \/ \E k \in DOMAIN groups.group :
                                                                 groups.group[k] < 0],
                                 groups, 1))

\* Assigned with the test left out
AssignedNever(triProperties, k) == FALSE

\* line 665: corner k = 3 * tri + i has its property vertex already
Assigned(triProperties, k) == At(At(triProperties, k \div 3), k % 3) >= 0

\* lines 663-786, from corner k = 3 * tri + i on
RECURSIVE SetNormalsFrom(_, _, _, _)
SetNormalsFrom(m, ctx, s, k) ==
  IF k >= Len(m.halfedge) THEN s
  ELSE IF Assigned(s.triProperties, k)
       THEN SetNormalsFrom(m, ctx, s, k + 1)
       ELSE Bind(SetVertNormals(m, ctx, s, k), LAMBDA t : SetNormalsFrom(m, ctx, t, k + 1))

\* what SetNormals reports besides the mesh: vertNumSharp, the group index each
\* corner of a creased vertex had, whether normals.back() met an empty list,
\* and the number of fans walked at each vertex
NoNormalsTrace ==
  [vertNumSharp |-> << >>, cornerGroup |-> << >>, emptyBack |-> FALSE, walks |-> << >>]

\* lines 614-787
SetNormals(m, normalIdx, minSharpAngle) ==
  IF IsEmpty(m) \/ normalIdx < 0 THEN [mesh |-> m, trace |-> NoNormalsTrace]
  ELSE
    Bind(FlatFaces(m), LAMBDA triIsFlatFace :
    Bind(VertFlatFace(m, triIsFlatFace), LAMBDA vertFlatFace :
    Bind(VertNumSharp(m, triIsFlatFace, vertFlatFace, minSharpAngle), LAMBDA vertNumSharp :
      LET oldNumProp == m.numProp
          numTri     == NumTri(m)
          numProp    == Max(oldNumProp, normalIdx + 3)
          ctx == [triIsFlatFace |-> triIsFlatFace,
                  vertFlatFace |-> vertFlatFace,
                  vertNumSharp |-> vertNumSharp,
                  minSharpAngle |-> minSharpAngle,
                  normalIdx |-> normalIdx,
                  oldNumProp |-> oldNumProp,
                  numProp |-> numProp,
                  oldProperties |-> m.properties,
                  oldTriProp |-> IF Len(m.triProperties) = 0
                                 THEN [t \in 1..numTri |->
                                         [j \in 1..3 |->
                                            At(m.halfedge, 3 * (t - 1) + j - 1).startVert]]
                                 ELSE m.triProperties]
          s0 == [properties |-> [c \in 1..(numProp * NumPropVert(m)) |-> Q(0, 1)],
                 triProperties |-> [t \in 1..numTri |-> <<-1, -1, -1>>],
                 lastGroup |-> 0, lastProp |-> -1, newProp |-> -1,
                 cornerGroup |-> [h \in 1..Len(m.halfedge) |-> -1],
                 emptyBack |-> FALSE,
                 walks |-> [v \in 1..NumVert(m) |-> 0]]
      IN  Bind(ctx, LAMBDA c :
          Bind(SetNormalsFrom(m, c, s0, 0), LAMBDA s :
            [mesh |-> [m EXCEPT !.numProp = numProp,
                                !.properties = s.properties,
                                !.triProperties = s.triProperties],
             trace |-> [vertNumSharp |-> vertNumSharp,
                        cornerGroup |-> s.cornerGroup,
                        emptyBack |-> s.emptyBack,
                        walks |-> s.walks]])))))

----------------------------------------------------------------------------
(* Tangents from property normals: CircularTangent, SmoothBezier and       *)
(* CreateTangents(normalIdx). A half-edge tangent (a glm::vec4) is kept as *)
(* the zero vector or as the terms CircularTangent built it from. The      *)
(* normals read from the property table are in units of 1e-6.              *)

\* kTolerance = 1e-5, in units of 1e-6
kTolerance == 10

QSub(a, b) == QAdd(a, <<0 - b[1], b[2]>>)

QLess(a, b) == a[1] * b[2] < b[1] * a[2]

\* the rational 3-vector v times the product of its denominators
Ints(v) == [k \in 1..3 |-> (v[k][1] * v[1][2] * v[2][2] * v[3][2]) \div v[k][2]]

\* the shortest integer vector along v, the zero vector for v = 0
Shortest(v) ==
  LET g == GCD(GCD(Abs(v[1]), Abs(v[2])), Abs(v[3]))
  IN  IF g = 0 THEN <<0, 0, 0>> ELSE [k \in 1..3 |-> v[k] \div g]

\* the normal of a triangle with corners tri, as the shortest integer vector
TriNormal(pos, tri) ==
  Shortest(Cross(Direction(At(pos, tri[2]), At(pos, tri[1])),
                 Direction(At(pos, tri[3]), At(pos, tri[1]))))

\* glm::vec4(0)
ZeroTangent ==
  [kind |-> "zero", dir |-> <<0, 0, 0>>, edgeVec |-> <<0, 0, 0>>, weight2 |-> <<0, 1>>]

\* lines 59-73: the result is (dir * |edgeVec| / (1 + 2 * weight), (1 + 2 * weight) / 3)
\* with dir the unit vector along tangent (zero for a zero tangent) and
\* weight = |dir . edgeVec| / |edgeVec|, or 1 where that is 0; kept are dir as
\* the shortest integer vector, edgeVec, and weight2, the square of weight
CircularTangent(tangent, edgeVec) ==
  LET dir == Shortest(tangent)
      d   == Dot(dir, edgeVec)
  IN  [kind |-> "circular",
       dir |-> dir,
       edgeVec |-> edgeVec,
       weight2 |-> IF d = 0 THEN Q(1, 1)
                   ELSE Q(d * d, Dot(dir, dir) * Dot(edgeVec, edgeVec))]

\* lines 512-522
GetNormal(m, halfedge, normalIdx) ==
  LET tri  == halfedge \div 3
      j    == halfedge % 3
      prop == At(At(m.triProperties, tri), j)
  IN  [i \in 1..3 |-> At(m.properties, prop * m.numProp + normalIdx + i - 1)]

\* lines 822-823: glm::dot(diff, diff) > kTolerance * kTolerance
NormalsDiffer(normal, nextNormal) ==
  LET diff == [i \in 1..3 |-> QSub(nextNormal[i], normal[i])]
  IN  QLess(Q(kTolerance * kTolerance, 1),
            QAdd(QAdd(QMul(diff[1], diff[1]), QMul(diff[2], diff[2])), QMul(diff[3], diff[3])))

\* Impl::ForVert with a transform and a binary operation: the half-edges it
\* hands to the operation, starting with halfedge itself, each together with
\* the next one around the vertex
ForVert(halfedge, e) ==
  Bind(Fan(halfedge, e), LAMBDA fan : <<e>> \o SubSeq(fan, 1, Len(fan) - 1))

\* lines 819-831: the closure applied to the half-edges visit[k..]
RECURSIVE DetectSharp(_, _, _, _, _)
DetectSharp(m, normalIdx, visit, k, d) ==
  IF k > Len(visit) THEN d
  ELSE
    LET halfedge   == visit[k]
        normal     == GetNormal(m, halfedge, normalIdx)
        nextNormal == GetNormal(m, NextHalfedge(At(m.halfedge, halfedge).pairedHalfedge),
                                normalIdx)
        d1 == IF NormalsDiffer(normal, nextNormal)
              THEN IF d.idx > 1
                   THEN [d EXCEPT !.sharpHalfedge[1] = -1]
                   ELSE [d EXCEPT !.sharpHalfedge[d.idx + 1] = halfedge, !.idx = d.idx + 1]
              ELSE d
    IN  Bind([d1 EXCEPT !.lastNormal = normal], LAMBDA t :
          DetectSharp(m, normalIdx, visit, k + 1, t))

\* lines 805-832, from half-edge e on
RECURSIVE SharpHalfedgesFrom(_, _, _, _)
SharpHalfedgesFrom(m, normalIdx, e, s) ==
  IF e >= Len(m.halfedge) THEN s
  ELSE
    LET vert == At(m.halfedge, e).startVert
        sharpHalfedge == At(s.vertSharpHalfedge, vert)
    IN  IF sharpHalfedge[1] >= 0 /\ sharpHalfedge[2] >= 0
        THEN SharpHalfedgesFrom(m, normalIdx, e + 1, s)
        ELSE Bind(DetectSharp(m, normalIdx, ForVert(m.halfedge, e), 1,
                              [sharpHalfedge |-> sharpHalfedge, idx |-> 0,
                               lastNormal |-> At(s.vertNormal, vert)]),
                  LAMBDA d :
                    SharpHalfedgesFrom(m, normalIdx, e + 1,
                      [vertSharpHalfedge |-> [s.vertSharpHalfedge EXCEPT
                                                ![vert + 1] = d.sharpHalfedge],
                       vertNormal |-> [s.vertNormal EXCEPT ![vert + 1] = d.lastNormal]]))

\* the vector from the start to the end of half-edge e
EdgeVec(m, e) ==
  Direction(At(m.vertPos, At(m.halfedge, e).endVert),
            At(m.vertPos, At(m.halfedge, e).startVert))

\* lines 94-105, with twice the edge normal in place of the edge normal
SmoothBezier(m, vertNormal, e) ==
  LET edge == At(m.halfedge, e)
      edgeNormal == [k \in 1..3 |->
                       At(m.faceNormal, edge.face)[k]
                       + At(m.faceNormal, At(m.halfedge, edge.pairedHalfedge).face)[k]]
      dir == Cross(Cross(edgeNormal, EdgeVec(m, e)), Ints(At(vertNormal, edge.startVert)))
  IN  CircularTangent(dir, EdgeVec(m, e))

\* KeepsTangent sparing the first half-edge only
KeepsTangentFirst(current, first, second) == current = first

\* line 853: the half-edges ForVert does not zero
KeepsTangent(current, first, second) == current = first \/ current = second

\* lines 843-856: the continuous edge through first and second
MakeContinuousEdge(m, normalIdx, halfedgeTangent, first, second) ==
  LET newTangent == Cross(Ints(GetNormal(m, first, normalIdx)),
                          Ints(GetNormal(m, second, normalIdx)))
  IN  IF newTangent = <<0, 0, 0>> THEN halfedgeTangent
      ELSE Bind({Fan(m.halfedge, first)[k] : k \in 1..Len(Fan(m.halfedge, first))},
                LAMBDA around :
                  [h \in 1..Len(halfedgeTangent) |->
                     IF h - 1 \in around /\ ~KeepsTangent(h - 1, first, second)
                     THEN ZeroTangent
                     ELSE IF h - 1 = second
                     THEN CircularTangent([k \in 1..3 |-> 0 - newTangent[k]], EdgeVec(m, second))
                     ELSE IF h - 1 = first
                     THEN CircularTangent(newTangent, EdgeVec(m, first))
                     ELSE halfedgeTangent[h]])

\* what the read of halfedge_[-1].pairedHalfedge at line 861 may give: the
\* access faults (or the bounds check of the container throws), or it yields
\* whatever lies before the array; -2 is the value that ends the loop, an
\* index of the array leads the loop into the fan of another vertex
ReadChoices(m) ==
  {[fault |-> TRUE, value |-> 0]}
    \cup {[fault |-> FALSE, value |-> g] : g \in {-2} \cup (0..(Len(m.halfedge) - 1))}

\* lines 838-864, from vertex vert on. In the branch of lines 857-863 first
\* is -1: line 860 writes halfedgeTangent_[-1] and line 861 reads
\* halfedge_[-1]; with current back in the array the loop zeroes the fan it
\* landed in and never meets -1 again
RECURSIVE SharpenFrom(_, _, _, _, _, _)
SharpenFrom(m, normalIdx, vertSharpHalfedge, read, vert, s) ==
  IF vert >= NumVert(m) THEN s
  ELSE
    LET first  == At(vertSharpHalfedge, vert)[1]
        second == At(vertSharpHalfedge, vert)[2]
    IN  IF second = -1
        THEN SharpenFrom(m, normalIdx, vertSharpHalfedge, read, vert + 1, s)
        ELSE IF first # -1
        THEN Bind([s EXCEPT !.halfedgeTangent =
                              MakeContinuousEdge(m, normalIdx, s.halfedgeTangent, first, second)],
                  LAMBDA t : SharpenFrom(m, normalIdx, vertSharpHalfedge, read, vert + 1, t))
        ELSE IF read.fault
        THEN [s EXCEPT !.outOfRange = TRUE, !.outcome = "faulted"]
        ELSE LET current == NextHalfedge(read.value)
             IN  IF current = first
                 THEN SharpenFrom(m, normalIdx, vertSharpHalfedge, read, vert + 1,
                                  [s EXCEPT !.outOfRange = TRUE])
                 ELSE Bind({Fan(m.halfedge, current)[k] :
                              k \in 1..Len(Fan(m.halfedge, current))},
                           LAMBDA around :
                             [halfedgeTangent |->
                                [h \in 1..Len(s.halfedgeTangent) |->
                                   IF h - 1 \in around THEN ZeroTangent
                                   ELSE s.halfedgeTangent[h]],
                              outOfRange |-> TRUE,
                              outcome |-> "hung"])

\* lines 797-865: the results the call may have, one for each thing line 861
\* may read before the array (they coincide when the call does not get there)
CreateTangents(m, normalIdx) ==
  LET numVert     == NumVert(m)
      numHalfedge == Len(m.halfedge)
  IN  Bind(SharpHalfedgesFrom(m, normalIdx, 0,
                              [vertSharpHalfedge |-> [v \in 1..numVert |-> <<-1, -1>>],
                               vertNormal |-> [v \in 1..numVert |-> <<Q(0, 1), Q(0, 1), Q(0, 1)>>]]),
           LAMBDA found :
      Bind([h \in 1..numHalfedge |-> SmoothBezier(m, found.vertNormal, h - 1)],
           LAMBDA smooth :
             {Bind(SharpenFrom(m, normalIdx, found.vertSharpHalfedge, read, 0,
                               [halfedgeTangent |-> smooth, outOfRange |-> FALSE,
                                outcome |-> "returned"]),
                   LAMBDA s :
                     [mesh |-> [m EXCEPT !.halfedgeTangent = s.halfedgeTangent],
                      vertSharpHalfedge |-> found.vertSharpHalfedge,
                      smooth |-> smooth,
                      outOfRange |-> s.outOfRange,
                      outcome |-> s.outcome]) : read \in ReadChoices(m)}))

----------------------------------------------------------------------------
(* CreateTangents(sharpenedEdges): tangents with explicitly sharpened      *)
(* edges. Smoothness values are exact rationals. A tangent this function   *)
(* derives from other tangents is kept as the term that says how: the      *)
(* continuous tangent made from two tangents, the tangent scaled by a      *)
(* smoothness.                                                             *)

\* struct Smoothness {halfedge, smoothness}
Smoothness(halfedge, smoothness) == [halfedge |-> halfedge, smoothness |-> smoothness]

\* a min that keeps its first argument
QFirst(x, y) == x

\* glm::min(x, y) = (y < x) ? y : x
QMin(x, y) == IF QLess(y, x) THEN y ELSE x

\* lines 894-904: the edges around flat faces, in the order they are pushed
FlatFaceEdges(m, triIsFlatFace) ==
  Concat([t \in 1..NumTri(m) |->
            IF ~triIsFlatFace[t] THEN << >>
            ELSE Concat([j \in 1..3 |->
                   LET tri2 == At(m.halfedge, 3 * (t - 1) + j - 1).pairedHalfedge \div 3
                   IN  IF ~At(triIsFlatFace, tri2)
                          \/ ~SameFace(m.triRef[t], At(m.triRef, tri2))
                       THEN <<Smoothness(3 * (t - 1) + j - 1, Q(0, 1))>>
                       ELSE << >>])])

\* lines 910-923: the std::map edges after the entries k.. of the list
RECURSIVE CombineFrom(_, _, _, _)
CombineFrom(halfedge, sharpenedEdges, k, edges) ==
  IF k > Len(sharpenedEdges) THEN edges
  ELSE
    LET edge    == sharpenedEdges[k]
        forward == IsForward(At(halfedge, edge.halfedge))
        pair    == At(halfedge, edge.halfedge).pairedHalfedge
        idx     == IF forward THEN edge.halfedge ELSE pair
    IN  IF ~QLess(edge.smoothness, Q(1, 1))
        THEN CombineFrom(halfedge, sharpenedEdges, k + 1, edges)
        ELSE IF idx \notin DOMAIN edges
        THEN Bind([i \in DOMAIN edges \cup {idx} |->
                     IF i # idx THEN edges[i]
                     ELSE IF forward
                     THEN [first |-> edge, second |-> Smoothness(pair, Q(1, 1))]
                     ELSE [first |-> Smoothness(pair, Q(1, 1)), second |-> edge]],
                  LAMBDA e : CombineFrom(halfedge, sharpenedEdges, k + 1, e))
        ELSE Bind(IF forward
                  THEN [edges EXCEPT ![idx].first.smoothness = QMin(edge.smoothness, @)]
                  ELSE [edges EXCEPT ![idx].second.smoothness = QMin(edge.smoothness, @)],
                  LAMBDA e : CombineFrom(halfedge, sharpenedEdges, k + 1, e))

\* a std::map's keys in the order it iterates them
RECURSIVE Ascending(_)
Ascending(keys) ==
  IF keys = {} THEN << >>
  ELSE LET lo == CHOOSE k \in keys : \A x \in keys : k <= x
       IN  <<lo>> \o Ascending(keys \ {lo})

\* lines 925-931: for each vertex the pairs of the sharpened edges at it,
\* the side that starts at the vertex first
RECURSIVE VertTangentsFrom(_, _, _, _, _)
VertTangentsFrom(halfedge, edges, order, k, vertTangents) ==
  IF k > Len(order) THEN vertTangents
  ELSE
    LET edge == edges[order[k]]
        v1   == At(halfedge, edge.first.halfedge).startVert
        v2   == At(halfedge, edge.second.halfedge).startVert
        push(vt, v, p) ==
          [x \in DOMAIN vt \cup {v} |->
             IF x = v THEN (IF v \in DOMAIN vt THEN vt[v] ELSE << >>) \o <<p>> ELSE vt[x]]
    IN  Bind(push(push(vertTangents, v1, edge), v2,
                  [first |-> edge.second, second |-> edge.first]),
             LAMBDA vt : VertTangentsFrom(halfedge, edges, order, k + 1, vt))

\* smoothness * tangent[current]
Scaled(smoothness, tangent) ==
  [kind |-> "scaled", smoothness |-> smoothness, tangent |-> tangent]

\* CircularTangent(sign * normalize(vec3(a) - vec3(b)), edgeVec)
Continuous(a, b, sign, edgeVec) ==
  [kind |-> "continuous", minuend |-> a, subtrahend |-> b, sign |-> sign,
   edgeVec |-> edgeVec]

\* lines 950-956: the half-edges SmoothHalf(first, last, .) scales
RECURSIVE SmoothHalf(_, _, _)
SmoothHalf(halfedge, first, last) ==
  LET current == NextHalfedge(At(halfedge, first).pairedHalfedge)
  IN  IF current = last THEN {}
      ELSE {current} \cup SmoothHalf(halfedge, current, last)

QHalf(x) == QMul(x, Q(1, 2))

\* lines 938-961: two sharpened edges at the vertex become one continuous edge
MakeContinuous(m, tangent, vert) ==
  LET first  == vert[1].first.halfedge
      second == vert[2].first.halfedge
      side1  == SmoothHalf(m.halfedge, first, second)
      side2  == SmoothHalf(m.halfedge, second, first)
      s1     == QHalf(QAdd(vert[1].second.smoothness, vert[2].first.smoothness))
      s2     == QHalf(QAdd(vert[2].second.smoothness, vert[1].first.smoothness))
  IN  [h \in 1..Len(tangent) |->
         IF h - 1 = first
         THEN Continuous(tangent[first + 1], tangent[second + 1], 1, EdgeVec(m, first))
         ELSE IF h - 1 = second
         THEN Continuous(tangent[first + 1], tangent[second + 1], -1, EdgeVec(m, second))
         ELSE IF h - 1 \in side1 THEN Scaled(s1, tangent[h])
         ELSE IF h - 1 \in side2 THEN Scaled(s2, tangent[h])
         ELSE tangent[h]]

RECURSIVE QSum(_, _)
QSum(s, n) == IF n = 0 THEN Q(0, 1) ELSE QAdd(QSum(s, n - 1), s[n])

\* lines 962-976: three or more sharpened edges sharpen the whole fan
SharpenUniformly(m, tangent, vert) ==
  LET total == QSum([k \in 1..Len(vert) |->
                       QAdd(vert[k].first.smoothness, vert[k].second.smoothness)],
                    Len(vert))
      smoothness == QMul(total, Q(1, 2 * Len(vert)))
      start  == vert[1].first.halfedge
      around == {Fan(m.halfedge, start)[k] : k \in 1..Len(Fan(m.halfedge, start))}
  IN  [h \in 1..Len(tangent) |->
         IF h - 1 \in around THEN Scaled(smoothness, tangent[h]) ELSE tangent[h]]

\* lines 933-977: the vertices of vertTangents order[k..], in turn
RECURSIVE SharpenVertsFrom(_, _, _, _, _)
SharpenVertsFrom(m, vertTangents, order, k, tangent) ==
  IF k > Len(order) THEN tangent
  ELSE
    LET vert == vertTangents[order[k]]
    IN  IF Len(vert) = 1
        THEN SharpenVertsFrom(m, vertTangents, order, k + 1, tangent)
        ELSE Bind(IF Len(vert) = 2 THEN MakeContinuous(m, tangent, vert)
                  ELSE SharpenUniformly(m, tangent, vert),
                  LAMBDA t : SharpenVertsFrom(m, vertTangents, order, k + 1, t))

\* lines 876-978
CreateTangentsSharpened(m, sharpenedEdges) ==
  Bind(FlatFaces(m), LAMBDA triIsFlatFace :
  Bind(VertFlatFace(m, triIsFlatFace), LAMBDA vertFlatFace :
  Bind([v \in 1..NumVert(m) |->
          LET n == IF vertFlatFace[v] >= 0 THEN At(m.faceNormal, vertFlatFace[v])
                   ELSE m.vertNormal[v]
          IN  [k \in 1..3 |-> Q(n[k], 1)]], LAMBDA vertNormal :
  Bind([h \in 1..Len(m.halfedge) |-> SmoothBezier(m, vertNormal, h - 1)], LAMBDA smooth :
  Bind(sharpenedEdges \o FlatFaceEdges(m, triIsFlatFace), LAMBDA all :
    IF all = << >>
    THEN [mesh |-> [m EXCEPT !.halfedgeTangent = smooth],
          smooth |-> smooth, edges |-> << >>, vertTangents |-> << >>]
    ELSE
      Bind(CombineFrom(m.halfedge, all, 1, << >>), LAMBDA edges :
      Bind(VertTangentsFrom(m.halfedge, edges, Ascending(DOMAIN edges), 1, << >>),
           LAMBDA vertTangents :
        [mesh |-> [m EXCEPT !.halfedgeTangent =
                     SharpenVertsFrom(m, vertTangents, Ascending(DOMAIN vertTangents),
                                      1, smooth)],
         smooth |-> smooth, edges |-> edges, vertTangents |-> vertTangents])))))))

----------------------------------------------------------------------------
(* State *)

VARIABLES
  divisions,      \* the argument of the pending or last GetPartition call
  partition,      \* the Partition that call returned, or NoPartition
  cache,          \* Partition::cache
  mesh,           \* the Manifold::Impl object
  meshIDCounter,  \* the next id ReserveIDs hands out
  op,             \* the operation that ran last on the mesh, with its arguments
  old,            \* the mesh as it was before that operation
  vertBary,       \* the Vec<Barycentric> the last Subdivide returned
  calls,          \* the GetPartition calls made so far, with what they returned
  threads,        \* the threads inside GetPartition: position and locals of each
  cacheLock,      \* Partition::cacheLock: the thread that holds it, or NoThread
  writes          \* the cache.insert calls executed so far, in order

vars == <<divisions, partition, cache, mesh, meshIDCounter, op, old, vertBary, calls,
          threads, cacheLock, writes>>

threadVars == <<threads, cacheLock, writes>>

NoThread == 0

meshVars == <<mesh, meshIDCounter, op, old, vertBary>>

Triples(m) == {<<a, b, c>> : a \in 1..m, b \in 1..m, c \in 1..m}

NoOp == [name |-> "none"]

EmptyMesh ==
  [halfedge |-> << >>, vertPos |-> << >>, faceNormal |-> << >>, vertNormal |-> << >>,
   triRef |-> << >>, numProp |-> 0, properties |-> << >>, triProperties |-> << >>,
   halfedgeTangent |-> << >>, originalID |-> 0]

\* no thread is inside GetPartition
NoThreads ==
  /\ threads = << >>
  /\ cacheLock = NoThread
  /\ writes = << >>

NoMesh ==
  /\ mesh = EmptyMesh
  /\ meshIDCounter = 1
  /\ op = NoOp
  /\ old = EmptyMesh
  /\ vertBary = << >>

----------------------------------------------------------------------------
(* Specification of the partition construction: GetPartition applied to    *)
(* every triple of division counts up to MaxDiv, on an empty cache.        *)

InitPartition ==
  /\ divisions \in Triples(MaxDiv)
  /\ partition = NoPartition
  /\ cache = EmptyCache
  /\ calls = {}
  /\ NoThreads
  /\ NoMesh

CallGetPartition ==
  /\ partition = NoPartition
  /\ \E r \in {GetPartition(cache, divisions)} :
       partition' = r.partition /\ cache' = r.cache
  /\ UNCHANGED <<divisions, calls, meshVars>>
  /\ UNCHANGED threadVars

NextPartition == CallGetPartition

SpecPartition == InitPartition /\ [][NextPartition]_vars

----------------------------------------------------------------------------
(* Specification of the cache: histories of up to MaxCalls different       *)
(* GetPartition calls, one after the other, on the process-wide cache,     *)
(* which starts empty.                                                     *)

InitCache ==
  /\ divisions = <<1, 1, 1>>
  /\ partition = NoPartition
  /\ cache = EmptyCache
  /\ calls = {}
  /\ NoThreads
  /\ NoMesh

\* one call: the argument, whether the sorted key was cached, the result
CallGetPartitionCached ==
  /\ Cardinality(calls) < MaxCalls
  /\ \E div \in Triples(MaxKeyDiv) :
       \E r \in {GetPartition(cache, div)} :
         /\ divisions' = div
         /\ partition' = r.partition
         /\ calls' = calls \cup {[divisions |-> div,
                                   hit |-> r.partition.sortedDivisions \in DOMAIN cache,
                                   partition |-> r.partition]}
         /\ cache' = r.cache
  /\ UNCHANGED meshVars
  /\ UNCHANGED threadVars

NextCache == CallGetPartitionCached

SpecCache == InitCache /\ [][NextCache]_vars

----------------------------------------------------------------------------
(* Specification of concurrent callers: MaxThreads threads, as the         *)
(* parallel for_each_n of Subdivide starts them, each inside one           *)
(* GetPartition call, interleaved statement by statement.                  *)

\* the arguments of the concurrent calls: two that sort to the same key and
\* one with a key of its own
ThreadDivisions == {<<1, 1, 2>>, <<2, 1, 1>>, <<2, 2, 1>>}

Threads == 1..MaxThreads

\* a lock that is handed out whoever holds it
CanLockAlways(lock) == TRUE

\* std::lock_guard<std::mutex>: the constructor returns once no thread
\* holds the mutex
CanLock(lock) == lock = NoThread

\* the copy of the Partition thread t constructs; madeBy tells the copies of
\* different threads apart
Stamped(p, t) == [madeBy |-> t] @@ p

InitConcurrent ==
  /\ divisions = <<1, 1, 1>>
  /\ partition = NoPartition
  /\ cache = EmptyCache
  /\ calls = {}
  /\ NoMesh
  /\ \E divs \in [Threads -> ThreadDivisions] :
       threads = [t \in Threads |->
                    [pc |-> "sort", divisions |-> divs[t], n |-> divs[t],
                     idx |-> <<0, 1, 2>>, partition |-> Stamped(NoPartition, NoThread)]]
  /\ cacheLock = NoThread
  /\ writes = << >>

AtPc(t, pc) == threads[t].pc = pc

Goto(t, pc) == threads' = [threads EXCEPT ![t].pc = pc]

\* lines 220-233
SortStep(t) ==
  /\ AtPc(t, "sort")
  /\ \E s \in {SortDivisions(threads[t].divisions)} :
       threads' = [threads EXCEPT ![t].n = s.div, ![t].idx = s.idx, ![t].pc = "lockFind"]
  /\ UNCHANGED <<cache, cacheLock, writes>>

\* line 293
LockFind(t) ==
  /\ AtPc(t, "lockFind")
  /\ CanLock(cacheLock)
  /\ cacheLock' = t
  /\ Goto(t, "find")
  /\ UNCHANGED <<cache, writes>>

\* lines 294-295
Find(t) ==
  /\ AtPc(t, "find")
  /\ Goto(t, IF CacheFind(cache, threads[t].n) THEN "copy" ELSE "unlockMiss")
  /\ UNCHANGED <<cache, cacheLock, writes>>

\* line 296: the return value is copied from the stored object
CopyOut(t) ==
  /\ AtPc(t, "copy")
  /\ threads' = [threads EXCEPT ![t].partition = cache[threads[t].n], ![t].pc = "unlockHit"]
  /\ UNCHANGED <<cache, cacheLock, writes>>

\* lines 296-298: the lock_guard of the block goes out of scope
UnlockFind(t) ==
  /\ AtPc(t, "unlockHit") \/ AtPc(t, "unlockMiss")
  /\ cacheLock' = NoThread
  /\ Goto(t, IF AtPc(t, "unlockHit") THEN "setIdx" ELSE "construct")
  /\ UNCHANGED <<cache, writes>>

\* lines 299-368
Construct(t) ==
  /\ AtPc(t, "construct")
  /\ \E p \in {MakePartition(threads[t].n)} :
       threads' = [threads EXCEPT ![t].partition = Stamped(p, t), ![t].pc = "lockInsert"]
  /\ UNCHANGED <<cache, cacheLock, writes>>

\* line 370
LockInsert(t) ==
  /\ AtPc(t, "lockInsert")
  /\ CanLock(cacheLock)
  /\ cacheLock' = t
  /\ Goto(t, "insert")
  /\ UNCHANGED <<cache, writes>>

\* line 371
Insert(t) ==
  /\ AtPc(t, "insert")
  /\ cache' = CacheInsert(cache, threads[t].n, threads[t].partition)
  /\ writes' = Append(writes, [thread |-> t, key |-> threads[t].n])
  /\ Goto(t, "unlockInsert")
  /\ UNCHANGED cacheLock

\* lines 372-373: the lock_guard goes out of scope on return
UnlockInsert(t) ==
  /\ AtPc(t, "unlockInsert")
  /\ cacheLock' = NoThread
  /\ Goto(t, "setIdx")
  /\ UNCHANGED <<cache, writes>>

\* lines 235-238
SetIdx(t) ==
  /\ AtPc(t, "setIdx")
  /\ threads' = [threads EXCEPT ![t].partition.idx = threads[t].idx, ![t].pc = "done"]
  /\ UNCHANGED <<cache, cacheLock, writes>>

NextConcurrent ==
  /\ \E t \in Threads :
       \/ SortStep(t)
       \/ LockFind(t)
       \/ Find(t)
       \/ CopyOut(t)
       \/ UnlockFind(t)
       \/ Construct(t)
       \/ LockInsert(t)
       \/ Insert(t)
       \/ UnlockInsert(t)
       \/ SetIdx(t)
  /\ UNCHANGED <<divisions, partition, calls, meshVars>>

SpecConcurrent == InitConcurrent /\ [][NextConcurrent]_vars

----------------------------------------------------------------------------
(* Specification of refinement: Refine, and through it Subdivide, applied  *)
(* once to a tetrahedron, for every result of the edgeDivisions callback   *)
(* up to MaxAdded per edge.                                                *)

Point(x, y, z) == <<x, y, z, 1>>

\* the triangle list with the vertices renamed by perm (a tuple of new ids)
Relabel(triVerts, perm) ==
  [t \in 1..Len(triVerts) |-> [i \in 1..3 |-> At(perm, triVerts[t][i])]]

RelabelPos(pos, perm) ==
  [v \in 1..Len(pos) |-> pos[CHOOSE k \in 1..Len(pos) : perm[k] = v - 1]]

TetraTris == << <<2, 0, 1>>, <<0, 3, 1>>, <<2, 3, 0>>, <<3, 2, 1>> >>

TetraPos == <<Point(-1, -1, 1), Point(-1, 1, -1), Point(1, -1, -1), Point(1, 1, 1)>>

\* a tangent along the edge, as CircularTangent builds it
EdgeTangent(m, e) == CircularTangent(EdgeVec(m, e), EdgeVec(m, e))

\* the meshes refinement starts from: the vertex numbering, the property
\* tables (none, or one property vertex per vertex except for a seam around
\* triangle 0, whose corners have property vertices of their own, or except
\* for the first corner of triangle 0 alone), and whether the mesh carries
\* half-edge tangents
Scenes == {<<<<0, 1, 2, 3>>, "none", FALSE>>,
           <<<<0, 1, 2, 3>>, "seam", FALSE>>,
           <<<<3, 2, 1, 0>>, "seam", TRUE>>}

MeshOf(triVerts, pos, props, tangents) ==
  LET halfedge == CreateHalfedges(triVerts)
      numVert  == Len(pos)
  IN  [halfedge |-> halfedge,
       vertPos |-> pos,
       faceNormal |-> [t \in 1..Len(triVerts) |-> TriNormal(pos, triVerts[t])],
       vertNormal |-> [v \in 1..numVert |-> <<0, 0, 1>>],
       triRef |-> [t \in 1..Len(triVerts) |-> [meshID |-> 0, originalID |-> 0, tri |-> t - 1]],
       numProp |-> IF props = "none" THEN 0 ELSE 1,
       properties |-> IF props = "none" THEN << >>
                      ELSE [r \in 1..(numVert + (CASE props = "seam" -> 3
                                                     [] props = "corner" -> 1
                                                     [] OTHER -> 0)) |-> Q(r * r, 1)],
       triProperties |-> IF props = "none" THEN << >>
                         ELSE [t \in 1..Len(triVerts) |->
                                 IF props = "seam" /\ t = 1
                                 THEN <<numVert, numVert + 1, numVert + 2>>
                                 ELSE IF props = "corner" /\ t = 1
                                 THEN <<numVert, triVerts[t][2], triVerts[t][3]>>
                                 ELSE triVerts[t]],
       halfedgeTangent |-> IF tangents
                           THEN [h \in 1..Len(halfedge) |->
                                   EdgeTangent([halfedge |-> halfedge, vertPos |-> pos], h - 1)]
                           ELSE << >>,
       originalID |-> 0]

InitRefine ==
  /\ divisions = <<1, 1, 1>>
  /\ partition = NoPartition
  /\ cache = EmptyCache
  /\ calls = {}
  /\ NoThreads
  /\ \E sc \in Scenes :
       mesh = MeshOf(Relabel(TetraTris, sc[1]), RelabelPos(TetraPos, sc[1]), sc[2], sc[3])
  /\ meshIDCounter = 1
  /\ op = NoOp
  /\ old = EmptyMesh
  /\ vertBary = << >>

NumEdge(m) == Len(m.halfedge) \div 2

\* the results the edgeDivisions callback may give for the edges of m
EdgeAddedChoices(m) == [1..NumEdge(m) -> 0..MaxAdded]

CallRefine ==
  /\ op = NoOp
  /\ \E edgeAdded \in EdgeAddedChoices(mesh) :
       \E r \in {Refine(mesh, edgeAdded, cache, meshIDCounter)} :
           /\ mesh' = r.mesh
           /\ vertBary' = r.vertBary
           /\ cache' = r.cache
           /\ meshIDCounter' = meshIDCounter + r.reserved
           /\ op' = [name |-> "Refine", edgeAdded |-> edgeAdded]
  /\ old' = mesh
  /\ UNCHANGED <<divisions, partition, calls>>
  /\ UNCHANGED threadVars

NextRefine == CallRefine

SpecRefine == InitRefine /\ [][NextRefine]_vars

\* Subdivide called on its own, on the non-empty meshes Refine hands to it
SubdivideScenes == {<<<<0, 1, 2, 3>>, "none">>,
                    <<<<0, 1, 2, 3>>, "seam">>,
                    <<<<3, 2, 1, 0>>, "corner">>}

InitSubdivide ==
  /\ divisions = <<1, 1, 1>>
  /\ partition = NoPartition
  /\ cache = EmptyCache
  /\ calls = {}
  /\ NoThreads
  /\ \E sc \in SubdivideScenes :
       mesh = MeshOf(Relabel(TetraTris, sc[1]), RelabelPos(TetraPos, sc[1]), sc[2], FALSE)
  /\ meshIDCounter = 1
  /\ op = NoOp
  /\ old = EmptyMesh
  /\ vertBary = << >>

CallSubdivide ==
  /\ op = NoOp
  /\ \E edgeAdded \in EdgeAddedChoices(mesh) :
       \E r \in {Subdivide(mesh, edgeAdded, cache)} :
           /\ mesh' = r.mesh
           /\ vertBary' = r.vertBary
           /\ cache' = r.cache
           /\ op' = [name |-> "Subdivide", edgeAdded |-> edgeAdded]
  /\ old' = mesh
  /\ UNCHANGED <<divisions, partition, calls, meshIDCounter>>
  /\ UNCHANGED threadVars

NextSubdivide == CallSubdivide

SpecSubdivide == InitSubdivide /\ [][NextSubdivide]_vars

----------------------------------------------------------------------------
(* Specification of SetNormals: up to MaxSetNormalsCalls calls, one after  *)
(* the other, on a unit cube of twelve triangles, which comes without      *)
(* properties or with one property channel whose property vertices are     *)
(* shared around each vertex except on the faces that have their own; or   *)
(* on such a cube with one or two faces made of four triangles each.       *)

CubeTris ==
  << <<1, 0, 4>>, <<2, 4, 0>>, <<1, 3, 0>>, <<3, 1, 5>>, <<3, 2, 0>>, <<3, 7, 2>>,
     <<5, 4, 6>>, <<5, 1, 4>>, <<6, 4, 2>>, <<7, 6, 2>>, <<7, 3, 5>>, <<7, 5, 6>> >>

CubePos == [v \in 1..8 |-> Point((v - 1) \div 4, ((v - 1) \div 2) % 2, (v - 1) % 2)]

\* the outward normals of the six faces: -x, +x, -y, +y, -z, +z
CubeFace(i) ==
  [k \in 1..3 |-> IF k = (i + 1) \div 2 THEN (IF i % 2 = 1 THEN -1 ELSE 1) ELSE 0]

\* the property vertex of the corner at vertex v of a triangle of face f: the
\* vertex's own, or one of the four the face brings if it is in ownFaces (a
\* sequence of faces)
CubeProp(ownFaces, f, v) ==
  LET r  == {k \in 1..Len(ownFaces) : ownFaces[k] = f}
      on == {u \in 0..7 : \E t \in 1..12 : /\ TriNormal(CubePos, CubeTris[t]) = f
                                            /\ \E i \in 1..3 : CubeTris[t][i] = u}
  IN  IF r = {} THEN v
      ELSE 8 + 4 * ((CHOOSE k \in r : TRUE) - 1) + Cardinality({u \in on : u < v})

\* the cube, without properties or with one channel
Cube(hasProps, ownFaces) ==
  LET halfedge == CreateHalfedges(CubeTris)
      normal(t) == TriNormal(CubePos, CubeTris[t])
  IN  [halfedge |-> halfedge,
       vertPos |-> CubePos,
       faceNormal |-> [t \in 1..12 |-> normal(t)],
       vertNormal |-> [v \in 1..8 |-> [k \in 1..3 |-> 2 * CubePos[v][k] - 1]],
       triRef |-> [t \in 1..12 |->
                     [meshID |-> 0, originalID |-> 0,
                      tri |-> (CHOOSE u \in 1..12 :
                                 /\ normal(u) = normal(t)
                                 /\ \A w \in 1..12 : normal(w) = normal(t) => u <= w) - 1]],
       numProp |-> IF ~hasProps THEN 0 ELSE 1,
       properties |-> IF ~hasProps THEN << >>
                      ELSE [r \in 1..(8 + 4 * Len(ownFaces)) |-> Q(r - 1, 1)],
       triProperties |-> IF ~hasProps THEN << >>
                         ELSE [t \in 1..12 |->
                                 [i \in 1..3 |-> CubeProp(ownFaces, normal(t), CubeTris[t][i])]],
       halfedgeTangent |-> << >>,
       originalID |-> 0]

\* the faces with property vertices of their own (none, one or two of them),
\* in the order of their rows
OwnFaceChoices ==
  {<< >>} \cup {<<CubeFace(i)>> : i \in 1..6}
          \cup {<<CubeFace(p[1]), CubeFace(p[2])>> : p \in {q \in (1..6) \X (1..6) : q[1] < q[2]}}

\* the centre of the cube's face with outward normal f
FaceCentre(f) == <<1 + f[1], 1 + f[2], 1 + f[3], 2>>

\* the boundary of the cube's face with outward normal f: the directed edges of
\* its two triangles without their common diagonal
FaceBoundary(f) ==
  LET edge(u, v) == \E t \in 1..12 : /\ TriNormal(CubePos, CubeTris[t]) = f
                                     /\ \E i \in 1..3 : /\ CubeTris[t][i] = u
                                                        /\ CubeTris[t][(i % 3) + 1] = v
  IN  {e \in (0..7) \X (0..7) : edge(e[1], e[2]) /\ ~edge(e[2], e[1])}

\* the triangles that join apex to the edges of the boundary of face f other
\* than those of skip; they replace the two triangles of f
FaceFan(f, apex, skip) ==
  LET edges == FaceBoundary(f) \ skip
      nth(i) == CHOOSE e \in edges : Cardinality({d \in edges : d[1] < e[1]}) = i - 1
  IN  [i \in 1..Cardinality(edges) |-> <<nth(i)[1], nth(i)[2], apex>>]

\* a convex solid without properties; the triangles of one face (those with
\* one normal) share their reference
Faceted(tris, pos, vertNormal) ==
  LET normal(t) == TriNormal(pos, tris[t])
  IN  [halfedge |-> CreateHalfedges(tris),
       vertPos |-> pos,
       faceNormal |-> [t \in 1..Len(tris) |-> normal(t)],
       vertNormal |-> vertNormal,
       triRef |-> [t \in 1..Len(tris) |->
                     [meshID |-> 0, originalID |-> 0,
                      tri |-> (CHOOSE u \in 1..Len(tris) :
                                 /\ normal(u) = normal(t)
                                 /\ \A w \in 1..Len(tris) : normal(w) = normal(t) => u <= w) - 1]],
       numProp |-> 0,
       properties |-> << >>,
       triProperties |-> << >>,
       halfedgeTangent |-> << >>,
       originalID |-> 0]

\* the cube's triangles outside the faces of split (a sequence of normals)
KeptTris(split) ==
  SelectSeq(CubeTris, LAMBDA tri : \A k \in 1..Len(split) : TriNormal(CubePos, tri) # split[k])

CubeVertNormal == [v \in 1..8 |-> [k \in 1..3 |-> 2 * CubePos[v][k] - 1]]

\* the cube in which each face of split (a sequence of at most two outward
\* normals) has a vertex at its centre and consists of the four triangles
\* around it
SplitCube(split) ==
  Faceted(KeptTris(split)
            \o (IF Len(split) >= 1 THEN FaceFan(split[1], 8, {}) ELSE << >>)
            \o (IF Len(split) >= 2 THEN FaceFan(split[2], 9, {}) ELSE << >>),
          CubePos \o [k \in 1..Len(split) |-> FaceCentre(split[k])],
          CubeVertNormal \o split)

\* the cube with a vertex at the middle of the edge between vertices 0 and 1:
\* the two faces at that edge are strips of three triangles each
EdgeSplitCube ==
  LET split == <<CubeFace(1), CubeFace(3)>>
      skip  == {<<0, 1>>, <<1, 0>>}
  IN  Faceted(KeptTris(split) \o FaceFan(split[1], 8, skip) \o FaceFan(split[2], 8, skip),
              CubePos \o << <<0, 0, 1, 2>> >>,
              CubeVertNormal \o << <<-1, -1, 0>> >>)

\* one face split, two adjacent faces split, two opposite faces split
meshVarsButOp == <<mesh, meshIDCounter, old, vertBary>>

SplitChoices ==
  {<<CubeFace(1)>>, <<CubeFace(1), CubeFace(3)>>, <<CubeFace(1), CubeFace(2)>>}

InitSetNormals ==
  /\ divisions = <<1, 1, 1>>
  /\ partition = NoPartition
  /\ cache = EmptyCache
  /\ calls = {}
  /\ NoThreads
  /\ mesh \in {Cube(FALSE, << >>)} \cup {Cube(TRUE, own) : own \in OwnFaceChoices}
              \cup {SplitCube(split) : split \in SplitChoices}
  /\ meshIDCounter = 1
  /\ op = NoOp
  /\ old = EmptyMesh
  /\ vertBary = << >>

NormalIdxChoices == {-1, 0, 1}

MinSharpAngleChoices == {60, 120}

CallSetNormals ==
  /\ op.name \in {"none", "SetNormals"}
  /\ (IF op.name = "none" THEN 0 ELSE Len(op.args)) < MaxSetNormalsCalls
  /\ \E normalIdx \in NormalIdxChoices, minSharpAngle \in MinSharpAngleChoices :
       \E r \in {SetNormals(mesh, normalIdx, minSharpAngle)} :
         /\ mesh' = r.mesh
         /\ op' = [name |-> "SetNormals",
                   args |-> (IF op.name = "none" THEN << >> ELSE op.args)
                            \o <<[normalIdx |-> normalIdx, minSharpAngle |-> minSharpAngle]>>,
                   trace |-> r.trace]
  /\ old' = mesh
  /\ UNCHANGED <<divisions, partition, cache, calls, meshIDCounter, vertBary>>
  /\ UNCHANGED threadVars

NextSetNormals == CallSetNormals

SpecSetNormals == InitSetNormals /\ [][NextSetNormals]_vars

----------------------------------------------------------------------------
(* Specification of the bulk pass of FlatFaces: the closures of the        *)
(* triangles run in any interleaving, one store at a time. threads holds   *)
(* the number of stores each closure has made, writes the pairs of a       *)
(* triangle and a slot its closure has stored to.                          *)

\* the cube (faces of two triangles), the cube with a face of four triangles
\* around its centre, the cube with two strips of three triangles, and the
\* tetrahedron after Refine(2) (each face split in four)
FlatScenes ==
  {Cube(FALSE, << >>), SplitCube(<<CubeFace(1)>>), EdgeSplitCube,
   Refine(MeshOf(TetraTris, TetraPos, "none", FALSE), [e \in 1..6 |-> 1], EmptyCache, 1).mesh}

InitFlatFaces ==
  /\ divisions = <<1, 1, 1>>
  /\ partition = NoPartition
  /\ cache = EmptyCache
  /\ calls = {}
  /\ cacheLock = NoThread
  /\ mesh \in FlatScenes
  /\ meshIDCounter = 1
  /\ old = EmptyMesh
  /\ vertBary = << >>
  /\ threads = [t \in 1..NumTri(mesh) |-> 0]
  /\ writes = {}
  /\ op = [name |-> "FlatFaces", returned |-> FALSE,
           triIsFlatFace |-> [t \in 1..NumTri(mesh) |-> FALSE]]

\* lines 562 and 565: the next store of the closure of triangle tri
FlatStore(tri) ==
  /\ op.name = "FlatFaces"
  /\ threads[tri + 1] < Len(FlatStores(mesh, tri))
  /\ \E slot \in {FlatStores(mesh, tri)[threads[tri + 1] + 1]} :
       /\ op' = [op EXCEPT !.triIsFlatFace[slot + 1] = TRUE]
       /\ writes' = writes \cup {<<tri, slot>>}
  /\ threads' = [threads EXCEPT ![tri + 1] = @ + 1]
  /\ UNCHANGED <<divisions, partition, cache, calls, cacheLock, meshVarsButOp>>

\* line 570: for_each_n has run every closure to its end
FlatReturn ==
  /\ op.name = "FlatFaces"
  /\ ~op.returned
  /\ \A tri \in 0..(NumTri(mesh) - 1) : threads[tri + 1] = Len(FlatStores(mesh, tri))
  /\ op' = [op EXCEPT !.returned = TRUE]
  /\ UNCHANGED <<divisions, partition, cache, calls, threads, cacheLock, writes, meshVarsButOp>>

NextFlatFaces ==
  \/ \E tri \in 0..(NumTri(mesh) - 1) : FlatStore(tri)
  \/ FlatReturn

SpecFlatFaces == InitFlatFaces /\ [][NextFlatFaces]_vars

----------------------------------------------------------------------------
(* Specification of CreateTangents(normalIdx): one call on a tetrahedron   *)
(* in which every corner has a property vertex of its own, holding a       *)
(* normal; the three normals around each vertex follow one of the patterns *)
(* below. The normals are the last three of numProp = 3 or 4 values.       *)

\* the normals of the three corners around a vertex, in units of 1e-6: all
\* equal; each within kTolerance of the next but the last not of the first;
\* two equal and one across; two equal and one parallel but longer; all
\* different
NormalPatterns ==
  { << <<0, 0, 30>>, <<0, 0, 30>>, <<0, 0, 30>> >>,
    << <<0, 0, 30>>, <<8, 0, 30>>, <<16, 0, 30>> >>,
    << <<0, 0, 30>>, <<0, 0, 30>>, <<0, 30, 0>> >>,
    << <<0, 0, 30>>, <<0, 0, 30>>, <<0, 0, 60>> >>,
    << <<0, 0, 30>>, <<0, 30, 0>>, <<30, 0, 0>> >> }

\* the tetrahedron with property vertex e for corner e, whose row ends with
\* the normal the pattern of its vertex gives it
TetraWithNormals(numProp, patterns) ==
  LET base == MeshOf(TetraTris, TetraPos, "none", FALSE)
      first(v) == CHOOSE e \in 0..11 : /\ At(base.halfedge, e).startVert = v
                                       /\ \A x \in 0..(e - 1) : At(base.halfedge, x).startVert # v
      place(e) == CHOOSE k \in 1..3 :
                    ForVert(base.halfedge, first(At(base.halfedge, e).startVert))[k] = e
      normal(e) == At(patterns, At(base.halfedge, e).startVert)[place(e)]
  IN  [base EXCEPT
         !.numProp = numProp,
         !.properties = [c \in 1..(12 * numProp) |->
                           LET e == (c - 1) \div numProp
                               i == ((c - 1) % numProp) - (numProp - 3)
                           IN  IF i < 0 THEN Q(e, 1) ELSE Q(At(normal(e), i), 1)],
         !.triProperties = [t \in 1..4 |-> <<3 * (t - 1), 3 * (t - 1) + 1, 3 * (t - 1) + 2>>]]

InitTangents ==
  /\ divisions = <<1, 1, 1>>
  /\ partition = NoPartition
  /\ cache = EmptyCache
  /\ calls = {}
  /\ NoThreads
  /\ mesh \in {TetraWithNormals(numProp, patterns) :
                 numProp \in {3, 4}, patterns \in [1..4 -> NormalPatterns]}
  /\ meshIDCounter = 1
  /\ op = NoOp
  /\ old = EmptyMesh
  /\ vertBary = << >>

CallCreateTangents ==
  /\ op = NoOp
  /\ \E r \in CreateTangents(mesh, mesh.numProp - 3) :
         /\ mesh' = r.mesh
         /\ op' = [name |-> "CreateTangents",
                   normalIdx |-> mesh.numProp - 3,
                   vertSharpHalfedge |-> r.vertSharpHalfedge,
                   smooth |-> r.smooth,
                   outOfRange |-> r.outOfRange,
                   outcome |-> r.outcome]
  /\ old' = mesh
  /\ UNCHANGED <<divisions, partition, cache, calls, meshIDCounter, vertBary>>
  /\ UNCHANGED threadVars

NextTangents == CallCreateTangents

SpecTangents == InitTangents /\ [][NextTangents]_vars

----------------------------------------------------------------------------
(* Specification of CreateTangents(sharpenedEdges): one call on a          *)
(* tetrahedron with the vertex normals pointing away from the centre, for  *)
(* every list of up to MaxSharpened entries.                               *)

TetraSmooth ==
  [MeshOf(TetraTris, TetraPos, "none", FALSE) EXCEPT
     !.vertNormal = [v \in 1..4 |-> <<TetraPos[v][1], TetraPos[v][2], TetraPos[v][3]>>]]

\* the half-edges the lists name: both sides of one edge and the backward
\* side of another edge at the same vertex
SharpenedHalfedges(m) == {0, At(m.halfedge, 0).pairedHalfedge, At(m.halfedge, 1).pairedHalfedge}

SmoothnessChoices == {Q(0, 1), Q(1, 2), Q(1, 1)}

SharpenedLists(m) ==
  UNION {[1..n -> {Smoothness(h, s) : h \in SharpenedHalfedges(m), s \in SmoothnessChoices}] :
           n \in 0..MaxSharpened}

InitSharpened ==
  /\ divisions = <<1, 1, 1>>
  /\ partition = NoPartition
  /\ cache = EmptyCache
  /\ calls = {}
  /\ NoThreads
  /\ mesh = TetraSmooth
  /\ meshIDCounter = 1
  /\ op = NoOp
  /\ old = EmptyMesh
  /\ vertBary = << >>

CallCreateTangentsSharpened ==
  /\ op = NoOp
  /\ \E sharpenedEdges \in SharpenedLists(mesh) :
       \E r \in {CreateTangentsSharpened(mesh, sharpenedEdges)} :
         /\ mesh' = r.mesh
         /\ op' = [name |-> "CreateTangentsSharpened",
                   sharpenedEdges |-> sharpenedEdges,
                   smooth |-> r.smooth,
                   edges |-> r.edges,
                   vertTangents |-> r.vertTangents]
  /\ old' = mesh
  /\ UNCHANGED <<divisions, partition, cache, calls, meshIDCounter, vertBary>>
  /\ UNCHANGED threadVars

NextSharpened == CallCreateTangentsSharpened

SpecSharpened == InitSharpened /\ [][NextSharpened]_vars

----------------------------------------------------------------------------
(* Specification of sequences of Refine and CreateTangents calls: up to    *)
(* MaxSeqOps calls on a tetrahedron that comes with or without half-edge   *)
(* tangents. calls is the list of the calls made; op holds, for a Refine,  *)
(* the callback's results and the value of meshIDCounter before the call.  *)

SeqScenes ==
  {TetraSmooth,
   MeshOf(TetraTris, TetraPos, "none", TRUE),
   MeshOf(TetraTris, TetraPos, "seam", FALSE)}

InitSequence ==
  /\ divisions = <<1, 1, 1>>
  /\ partition = NoPartition
  /\ cache = EmptyCache
  /\ calls = << >>
  /\ NoThreads
  /\ mesh \in SeqScenes
  /\ meshIDCounter = 1
  /\ op = NoOp
  /\ old = EmptyMesh
  /\ vertBary = << >>

\* the results of the edgeDivisions callback: the same number for every edge,
\* or a number for the first edge and 0 for the others
SeqEdgeAdded(m) ==
  {[e \in 1..NumEdge(m) |-> k] : k \in 0..MaxSeqAdded}
    \cup {[e \in 1..NumEdge(m) |-> IF e = 1 THEN k ELSE 0] : k \in 1..MaxSeqAdded}

\* the number of triangles Subdivide makes of m: a triangle with n vertices
\* added on each edge becomes (n + 1)^2 triangles, one with n vertices added
\* on one edge n + 1
SeqTrisAfter(m, edgeAdded) ==
  IF edgeAdded[NumEdge(m)] = edgeAdded[1]
  THEN NumTri(m) * (edgeAdded[1] + 1) * (edgeAdded[1] + 1)
  ELSE NumTri(m) + 2 * edgeAdded[1]

SeqRefine ==
  /\ Len(calls) < MaxSeqOps
  /\ \E edgeAdded \in SeqEdgeAdded(mesh) :
       /\ SeqTrisAfter(mesh, edgeAdded) <= MaxSeqTris
       /\ \E r \in {Refine(mesh, edgeAdded, cache, meshIDCounter)} :
            /\ mesh' = r.mesh
            /\ vertBary' = r.vertBary
            /\ cache' = r.cache
            /\ meshIDCounter' = meshIDCounter + r.reserved
            /\ op' = [name |-> "Refine", edgeAdded |-> edgeAdded,
                      meshIDCounter |-> meshIDCounter]
  /\ calls' = Append(calls, "Refine")
  /\ old' = mesh
  /\ UNCHANGED <<divisions, partition>>
  /\ UNCHANGED threadVars

\* CreateTangents(sharpenedEdges) with an empty list, on a mesh whose normals
\* the model has
SeqCreateTangents ==
  /\ Len(calls) < MaxSeqOps
  /\ Len(mesh.faceNormal) = NumTri(mesh)
  /\ \E r \in {CreateTangentsSharpened(mesh, << >>)} :
       /\ mesh' = r.mesh
       /\ op' = [name |-> "CreateTangentsSharpened", sharpenedEdges |-> << >>,
                 smooth |-> r.smooth, edges |-> r.edges, vertTangents |-> r.vertTangents]
  /\ calls' = Append(calls, "CreateTangents")
  /\ old' = mesh
  /\ UNCHANGED <<divisions, partition, cache, meshIDCounter, vertBary>>
  /\ UNCHANGED threadVars

NextSequence ==
  \/ SeqRefine
  \/ SeqCreateTangents

SpecSequence == InitSequence /\ [][NextSequence]_vars

----------------------------------------------------------------------------
(* Specification of the empty mesh: up to MaxEmptyOps operations, one      *)
(* after the other, on a mesh without vertices and triangles.              *)

\* what the reads of edgeOffset.back(), edgeAdded.back(), triOffset.back(),
\* subTris.back() and interiorOffset.back() on empty vectors (lines 1010,
\* 1055, 1056) may lead to: the access faults (or the container's check
\* throws), or the values read make vertBary end with some size
BackChoices ==
  {[fault |-> TRUE, size |-> 0]} \cup {[fault |-> FALSE, size |-> g] : g \in {0, 1}}

\* lines 987-1214, an empty mesh included: the results the call may have
SubdivideOutcomes(m, edgeAdded, c) ==
  IF Len(CreateTmpEdges(m.halfedge)) > 0
  THEN {Bind(Subdivide(m, edgeAdded, c), LAMBDA r :
          [mesh |-> r.mesh, vertBary |-> r.vertBary, cache |-> r.cache,
           outOfRange |-> FALSE, outcome |-> "returned"])}
  ELSE {IF back.fault
        THEN [mesh |-> m, vertBary |-> << >>, cache |-> c,
              outOfRange |-> TRUE, outcome |-> "faulted"]
        ELSE [mesh |-> [m EXCEPT !.vertPos = [k \in 1..back.size |-> Point(0, 0, 0)],
                                 !.faceNormal = << >>],
              vertBary |-> [k \in 1..back.size |-> NoBary], cache |-> c,
              outOfRange |-> TRUE, outcome |-> "returned"] : back \in BackChoices}

InitEmptyMesh ==
  /\ divisions = <<1, 1, 1>>
  /\ partition = NoPartition
  /\ cache = EmptyCache
  /\ calls = << >>
  /\ NoThreads
  /\ NoMesh

\* an operation may start: the process is alive and the mesh still empty
MayCall ==
  /\ Len(calls) < MaxEmptyOps
  /\ IsEmpty(mesh)
  /\ op.name # "none" => op.outcome = "returned"

Done(name, args, outOfRange, outcome) ==
  /\ op' = [name |-> name, args |-> args, outOfRange |-> outOfRange, outcome |-> outcome]
  /\ calls' = Append(calls, [name |-> name, args |-> args])
  /\ old' = mesh
  /\ UNCHANGED <<divisions, partition, meshIDCounter>>
  /\ UNCHANGED threadVars

EmptySetNormals ==
  /\ MayCall
  /\ \E normalIdx \in NormalIdxChoices, minSharpAngle \in MinSharpAngleChoices :
       \E r \in {SetNormals(mesh, normalIdx, minSharpAngle)} :
         /\ mesh' = r.mesh
         /\ Done("SetNormals", <<normalIdx, minSharpAngle>>, r.trace.emptyBack, "returned")
  /\ UNCHANGED <<cache, vertBary>>

EmptyCreateTangents ==
  /\ MayCall
  /\ \E normalIdx \in NormalIdxChoices \ {-1} :
       \E r \in CreateTangents(mesh, normalIdx) :
         /\ mesh' = r.mesh
         /\ Done("CreateTangents", <<normalIdx>>, r.outOfRange, r.outcome)
  /\ UNCHANGED <<cache, vertBary>>

\* no half-edge exists that an entry of the list could name
EmptyCreateTangentsSharpened ==
  /\ MayCall
  /\ \E r \in {CreateTangentsSharpened(mesh, << >>)} :
         /\ mesh' = r.mesh
         /\ Done("CreateTangentsSharpened", << >>, FALSE, "returned")
  /\ UNCHANGED <<cache, vertBary>>

EmptySubdivide ==
  /\ MayCall
  /\ \E edgeAdded \in EdgeAddedChoices(mesh) :
       \E r \in SubdivideOutcomes(mesh, edgeAdded, cache) :
         /\ mesh' = r.mesh
         /\ vertBary' = r.vertBary
         /\ cache' = r.cache
         /\ Done("Subdivide", edgeAdded, r.outOfRange, r.outcome)

EmptyRefine ==
  /\ MayCall
  /\ \E edgeAdded \in EdgeAddedChoices(mesh) :
       \E r \in {Refine(mesh, edgeAdded, cache, meshIDCounter)} :
         /\ mesh' = r.mesh
         /\ vertBary' = r.vertBary
         /\ cache' = r.cache
         /\ Done("Refine", edgeAdded, FALSE, "returned")

NextEmptyMesh ==
  \/ EmptySetNormals
  \/ EmptyCreateTangents
  \/ EmptyCreateTangentsSharpened
  \/ EmptySubdivide
  \/ EmptyRefine

SpecEmptyMesh == InitEmptyMesh /\ [][NextEmptyMesh]_vars

----------------------------------------------------------------------------
(* Triangulation predicates *)

\* the directed edges of a triangle list, as <<triangle, corner>> places
EdgePlaces(triVert) == (1..Len(triVert)) \X (0..2)

EdgeAt(triVert, pl) ==
  <<At(triVert[pl[1]], pl[2]), At(triVert[pl[1]], Next3(pl[2]))>>

DirectedEdges(triVert) == {EdgeAt(triVert, pl) : pl \in EdgePlaces(triVert)}

\* every directed edge is used by one triangle only, and no triangle is degenerate
EdgesUsedOnce(triVert) ==
  /\ Cardinality(DirectedEdges(triVert)) = 3 * Len(triVert)
  /\ \A t \in 1..Len(triVert) : Cardinality({triVert[t][1], triVert[t][2], triVert[t][3]}) = 3

\* corner 0, inserted vertices of edge 0, corner 1, ... as one cyclic sequence
BoundaryCycle(n) ==
  LET off(i) == IF i = 0 THEN 3
                ELSE IF i = 1 THEN 3 + At(n, 0) - 1
                ELSE 3 + At(n, 0) - 1 + At(n, 1) - 1
      side(i) == <<i>> \o [j \in 1..(At(n, i) - 1) |-> off(i) + j - 1]
  IN  side(0) \o side(1) \o side(2)

CycleEdges(cyc) == {<<cyc[k], cyc[(k % Len(cyc)) + 1]>> : k \in 1..Len(cyc)}

IsDisc(n, triVert) ==
  LET de == DirectedEdges(triVert)
      be == CycleEdges(BoundaryCycle(n))
  IN  /\ EdgesUsedOnce(triVert)
      /\ be \subseteq de
      /\ \A e \in de : (<<e[2], e[1]>> \in de) <=> (e \notin be)

\* every half-edge has a partner running the other way, and no two
\* half-edges run the same way between the same vertices
IsManifold(halfedge) ==
  Bind({<<halfedge[e].startVert, halfedge[e].endVert>> : e \in 1..Len(halfedge)},
       LAMBDA dirs :
         /\ Cardinality(dirs) = Len(halfedge)
         /\ \A d \in dirs : d[1] # d[2] /\ <<d[2], d[1]>> \in dirs)

----------------------------------------------------------------------------
(* Claims *)

\* C1: after Subdivide on a closed oriented manifold mesh, for any results
\* of edgeDivisions, the refined triangles again form a closed oriented
\* manifold: each directed edge occurs in exactly one triangle and so does
\* its reverse
C1_SubdivideKeepsManifold ==
  op.name = "Refine" => IsManifold(mesh.halfedge)

\* an edge shared by two triangles received two or more vertices
C1_Witness ==
  /\ op.name = "Refine"
  /\ \E k \in DOMAIN op.edgeAdded : op.edgeAdded[k] >= 2
  /\ NumTri(mesh) > NumTri(old)
  /\ IsManifold(mesh.halfedge)

\* C2: for every triple of division counts, the triVert GetCachedPartition
\* builds for the sorted triple is a triangulation of a disc: the edges used
\* by one triangle only form the cycle through corner 0, the inserted
\* vertices of edge 0, corner 1, those of edge 1, corner 2, those of edge 2,
\* and every other edge is used by two triangles, in opposite directions
C2_PartitionIsDisc ==
  partition # NoPartition => IsDisc(partition.sortedDivisions, partition.triVert)

\* a partition with interior vertices, which only the quad recursion makes
C2_Witness ==
  /\ partition # NoPartition
  /\ NumInterior(partition) > 0
  /\ At(partition.sortedDivisions, 2) > 1
  /\ IsDisc(partition.sortedDivisions, partition.triVert)

\* the triple in descending order
Descending(t) ==
  LET hi == Max(Max(t[1], t[2]), t[3])
      lo == Min(Min(t[1], t[2]), t[3])
  IN  <<hi, t[1] + t[2] + t[3] - hi - lo, lo>>

\* C3: two GetPartition calls whose arguments sort to the same descending
\* triple return the same sortedDivisions, vertBary and triVert, whether the
\* call constructed the partition or was served from the cache
C3_SameKeySamePartition ==
  \A a \in calls, b \in calls :
     Descending(a.divisions) = Descending(b.divisions) =>
       /\ a.partition.sortedDivisions = b.partition.sortedDivisions
       /\ a.partition.vertBary = b.partition.vertBary
       /\ a.partition.triVert = b.partition.triVert

\* a call that constructed and a later call, with the divisions in another
\* order, that the cache served, another key having been stored in between
C3_Witness ==
  \E a \in calls, b \in calls :
     /\ ~a.hit /\ b.hit
     /\ Descending(a.divisions) = Descending(b.divisions)
     /\ a.partition.idx # b.partition.idx
     /\ a.partition.triVert = b.partition.triVert
     /\ Cardinality(DOMAIN cache) >= 2

\* C10: Refine, with or without tangents, gives every vertex retained from
\* the source mesh its previous position: the barycentric Subdivide returns
\* for it is a basis vector of a source triangle whose corner of that index
\* is the vertex, and its new position is that corner's
C10_RetainedVertsKeepPosition ==
  op.name = "Refine" =>
    \A v \in 0..(NumVert(old) - 1) :
       /\ \E i \in 0..2 :
            /\ At(vertBary, v).uvw = Basis(i)
            /\ At(old.halfedge, 3 * At(vertBary, v).tri + i).startVert = v
       /\ At(mesh.vertPos, v) = At(old.vertPos, v)

\* a mesh with tangents was refined: the added vertices lie on the Bezier
\* patches and the retained ones where they were
C10_Witness ==
  /\ op.name = "Refine"
  /\ Len(old.halfedgeTangent) = Len(old.halfedge)
  /\ NumVert(mesh) > NumVert(old)
  /\ \E v \in (NumVert(old) + 1)..NumVert(mesh) : mesh.vertPos[v][1] = "patch"
  /\ \A v \in 1..NumVert(old) : mesh.vertPos[v] = old.vertPos[v]

\* the corners (half-edges) that start at vertex v
CornersOf(m, v) == {e \in 0..(Len(m.halfedge) - 1) : At(m.halfedge, e).startVert = v}

\* the property vertex of corner e; a mesh without triProperties has one
\* property vertex per vertex
PropOf(m, e) ==
  IF Len(m.triProperties) = 0 THEN At(m.halfedge, e).startVert
  ELSE At(At(m.triProperties, e \div 3), e % 3)

\* the last operation was a SetNormals call that went past its early returns
SetNormalsRan ==
  /\ op.name = "SetNormals"
  /\ op.args[Len(op.args)].normalIdx >= 0
  /\ ~IsEmpty(old)

Creased(v) == At(op.trace.vertNumSharp, v) >= 2

\* C4: after SetNormals, two corners of a creased vertex that lie in
\* different fan groups never have the same property vertex, whatever the
\* triProperties on entry
C4_GroupsGetDistinctPropVerts ==
  SetNormalsRan =>
    \A v \in 0..(NumVert(mesh) - 1) :
       Creased(v) =>
         \A a \in CornersOf(mesh, v), b \in CornersOf(mesh, v) :
            At(op.trace.cornerGroup, a) # At(op.trace.cornerGroup, b)
              => PropOf(mesh, a) # PropOf(mesh, b)

\* C5: a SetNormals call with the arguments of the call before it leaves
\* properties and triProperties as that call left them
C5_SecondCallChangesNothing ==
  (/\ SetNormalsRan
   /\ Len(op.args) >= 2
   /\ op.args[Len(op.args)] = op.args[Len(op.args) - 1])
  => /\ mesh.properties = old.properties
     /\ mesh.triProperties = old.triProperties

\* the number of fan groups SetNormals found at creased vertex v
NumGroups(v) ==
  1 + (CHOOSE g \in {At(op.trace.cornerGroup, e) : e \in CornersOf(mesh, v)} :
         \A e \in CornersOf(mesh, v) : At(op.trace.cornerGroup, e) <= g)

\* the sum over the creased vertices of (number of fan groups - 1)
GroupsBeyondFirst ==
  SumSeq([v \in 1..NumVert(mesh) |-> IF Creased(v - 1) THEN NumGroups(v - 1) - 1 ELSE 0],
         NumVert(mesh))

\* no corner of a vertex with fewer than two sharp edges has a property
\* vertex that did not exist before the call
SmoothVertsAddNone ==
  \A v \in 0..(NumVert(mesh) - 1) :
     ~Creased(v) => \A e \in CornersOf(mesh, v) : PropOf(mesh, e) < NumPropVert(old)

\* on entry all corners of each vertex had one property vertex
OnePropPerVert(m) ==
  \A v \in 0..(NumVert(m) - 1) :
     \A a \in CornersOf(m, v), b \in CornersOf(m, v) : PropOf(m, a) = PropOf(m, b)

\* C6 as stated: SetNormals adds, for any input, exactly the sum over the
\* creased vertices of (number of fan groups - 1) property vertices, and
\* vertices with fewer than two sharp edges add none
C6_AddsGroupsMinusOne ==
  SetNormalsRan =>
    /\ NumPropVert(mesh) = NumPropVert(old) + GroupsBeyondFirst
    /\ SmoothVertsAddNone

\* C6 amended: when on entry the corners of each vertex share one property
\* vertex, SetNormals adds exactly the sum over the creased vertices of
\* (number of fan groups - 1) property vertices; for any input, vertices with
\* fewer than two sharp edges add none
C6_AddsGroupsMinusOneWhenShared ==
  SetNormalsRan =>
    /\ OnePropPerVert(old) => NumPropVert(mesh) = NumPropVert(old) + GroupsBeyondFirst
    /\ SmoothVertsAddNone

\* every vertex of the cube was creased with three groups, each vertex having
\* had one property vertex: sixteen property vertices were added to the eight
C6_Witness ==
  /\ SetNormalsRan
  /\ OnePropPerVert(old)
  /\ \A v \in 0..(NumVert(mesh) - 1) : Creased(v) /\ NumGroups(v) = 3
  /\ NumPropVert(old) = 8
  /\ NumPropVert(mesh) = 24

\* the half-edges starting at v across which the normal of the last
\* CreateTangents call's normalIdx changes by more than kTolerance
NormalChanges(v) ==
  {e \in CornersOf(old, v) :
     NormalsDiffer(GetNormal(old, e, op.normalIdx),
                   GetNormal(old, NextHalfedge(At(old.halfedge, e).pairedHalfedge),
                             op.normalIdx))}

TangentsZeroAt(v) ==
  \A e \in CornersOf(mesh, v) : At(mesh.halfedgeTangent, e) = ZeroTangent

\* C7: CreateTangents(normalIdx) accesses array elements within
\* [0, numHalfedge) only, and after it returned every tangent starting at a
\* vertex whose normal changes across more than two half-edges is zero
C7_ManySharpZeroedInRange ==
  op.name = "CreateTangents" =>
    /\ ~op.outOfRange
    /\ op.outcome = "returned" =>
         \A v \in 0..(NumVert(mesh) - 1) :
            Cardinality(NormalChanges(v)) > 2 => TangentsZeroAt(v)

\* C8: after CreateTangents(normalIdx) returned, every tangent starting at a
\* vertex with exactly one sharp half-edge (one entry of vertSharpHalfedge
\* set, the other -1) is zero
C8_OneSharpZeroed ==
  (op.name = "CreateTangents" /\ op.outcome = "returned") =>
    \A v \in 0..(NumVert(mesh) - 1) :
       (/\ Cardinality(NormalChanges(v)) = 1
        /\ At(op.vertSharpHalfedge, v)[1] >= 0
        /\ At(op.vertSharpHalfedge, v)[2] = -1)
       => TangentsZeroAt(v)

\* the normals at the two sharp half-edges of v are not parallel, so that
\* their normalized cross product is finite
FiniteCross(v) ==
  \E first \in NormalChanges(v), second \in NormalChanges(v) :
     /\ first # second
     /\ Cross(Ints(GetNormal(old, first, op.normalIdx)),
              Ints(GetNormal(old, second, op.normalIdx))) # <<0, 0, 0>>

\* a tangent that is not the zero 4-vector and whose fourth component,
\* (1 + 2 * sqrt(weight2)) / 3, is positive
NonZeroWithWeight(t) ==
  t # ZeroTangent /\ t.kind = "circular" /\ t.weight2[1] >= 0 /\ t.weight2[2] > 0

\* C9: after CreateTangents(normalIdx) returned, at every vertex with
\* exactly two sharp half-edges whose normals have a finite normalized cross
\* product, the tangents of those two are non-zero with positive weight and
\* every other tangent starting there is zero; the tangents starting at
\* vertices with fewer than two sharp half-edges, or with two of parallel
\* normals, are the ones the SmoothBezier pass gave them
C9_TwoSharpContinuousEdge ==
  (op.name = "CreateTangents" /\ op.outcome = "returned") =>
    \A v \in 0..(NumVert(mesh) - 1) :
       /\ (Cardinality(NormalChanges(v)) = 2 /\ FiniteCross(v)) =>
            \A e \in CornersOf(mesh, v) :
               IF e \in NormalChanges(v)
               THEN NonZeroWithWeight(At(mesh.halfedgeTangent, e))
               ELSE At(mesh.halfedgeTangent, e) = ZeroTangent
       /\ (Cardinality(NormalChanges(v)) < 2
           \/ (Cardinality(NormalChanges(v)) = 2 /\ ~FiniteCross(v))) =>
            \A e \in CornersOf(mesh, v) :
               At(mesh.halfedgeTangent, e) = At(op.smooth, e)

\* vertex 0 has two sharp half-edges with crossing normals and one more
\* half-edge, vertex 1 none, vertex 2 two with parallel normals, and the call
\* returned without leaving the arrays
C9_Witness ==
  /\ op.name = "CreateTangents"
  /\ op.outcome = "returned"
  /\ ~op.outOfRange
  /\ Cardinality(NormalChanges(0)) = 2 /\ FiniteCross(0)
  /\ \E e \in CornersOf(mesh, 0) : At(mesh.halfedgeTangent, e) = ZeroTangent
  /\ \E e \in CornersOf(mesh, 0) : NonZeroWithWeight(At(mesh.halfedgeTangent, e))
  /\ NormalChanges(1) = {}
  /\ Cardinality(NormalChanges(2)) = 2 /\ ~FiniteCross(2)
  /\ \A e \in CornersOf(mesh, 1) \cup CornersOf(mesh, 2) :
        At(mesh.halfedgeTangent, e) = At(op.smooth, e)

\* C11: when the callback gives 0 for every edge, Subdivide adds no vertex
\* and changes no connectivity: vertBary has exactly NumVert entries, new
\* triangle t has the three corner vertices of source triangle t in the same
\* order, and triRef, properties and triProperties are what they were.
SubdivideRan == op.name = "Subdivide"

NoEdgeDivided == \A k \in DOMAIN op.edgeAdded : op.edgeAdded[k] = 0

C11_ZeroDivisionsChangeNothing ==
  (SubdivideRan /\ NoEdgeDivided) =>
    /\ Len(vertBary) = NumVert(old)
    /\ NumTri(mesh) = NumTri(old)
    /\ \A h \in DOMAIN old.halfedge :
         h \in DOMAIN mesh.halfedge /\ mesh.halfedge[h].startVert = old.halfedge[h].startVert
    /\ mesh.triRef = old.triRef
    /\ mesh.properties = old.properties
    /\ mesh.triProperties = old.triProperties

C11_Witness == SubdivideRan /\ NoEdgeDivided /\ old.numProp > 0 /\ NumTri(mesh) = 4

\* the forward half-edges of the mesh before the call, one per source edge
SourceEdges == {e \in 0..(Len(old.halfedge) - 1) : IsForward(At(old.halfedge, e))}

PairOf(e) == At(old.halfedge, e).pairedHalfedge

EndVerts(e) == {At(old.halfedge, e).startVert, At(old.halfedge, PairOf(e)).startVert}

\* the corner of source triangle t that is vertex a
CornerOf(t, a) == CHOOSE j \in 0..2 : At(old.halfedge, 3 * t + j).startVert = a

\* the property vertex source triangle t references at vertex a
PropAt(t, a) == At(old.triProperties[t + 1], CornerOf(t, a))

SidesDiffer(e) == \E a \in EndVerts(e) : PropAt(e \div 3, a) # PropAt(PairOf(e) \div 3, a)

\* the vertices inserted on source edge e, read off vertBary
EdgeVerts(e) ==
  {v \in NumVert(old)..(Len(vertBary) - 1) :
     /\ At(vertBary, v).tri = e \div 3
     /\ At(At(vertBary, v).uvw, Next3(Next3(e % 3))) = 0}

\* the weight of end vertex a in inserted vertex v
WeightAt(v, a) ==
  LET b == At(vertBary, v)
  IN  Q(At(b.uvw, CornerOf(b.tri, a)), b.uvw[4])

\* the property vertices the new triangles made from source triangle t
\* reference at vertex v
SideProps(v, t) ==
  {At(mesh.triProperties[q[1]], q[2]) :
     q \in {r \in (1..NumTri(mesh)) \X (0..2) :
              /\ mesh.triRef[r[1]].tri = t
              /\ At(mesh.halfedge, 3 * (r[1] - 1) + r[2]).startVert = v}}

\* the row of inserted vertex v interpolated between the rows source
\* triangle t has at the two ends of edge e
InterpRow(v, t, e) ==
  LET a0 == At(old.halfedge, e).startVert
      a1 == At(old.halfedge, PairOf(e)).startVert
  IN  [q \in 1..old.numProp |->
         QAdd(QMul(WeightAt(v, a0), At(old.properties, PropAt(t, a0) * old.numProp + q - 1)),
              QMul(WeightAt(v, a1), At(old.properties, PropAt(t, a1) * old.numProp + q - 1)))]

NewRow(id) == [q \in 1..mesh.numProp |-> At(mesh.properties, id * mesh.numProp + q - 1)]

\* C12: in Subdivide with properties, on a source edge whose two triangles
\* reference different property vertices at either end the inserted vertices
\* get property vertices of their own on each side, disjoint between the
\* sides, each holding the interpolation of that side's two end rows at the
\* vertex's fraction; on an edge whose ends match, both sides reference the
\* same property vertex at every inserted vertex.
C12_SeamEdgesSplitProps ==
  (SubdivideRan /\ old.numProp > 0) =>
    \A e \in SourceEdges :
      LET t1 == e \div 3
          t2 == PairOf(e) \div 3
          ids(t) == UNION {SideProps(v, t) : v \in EdgeVerts(e)}
      IN  /\ \A v \in EdgeVerts(e) : \A t \in {t1, t2} : Cardinality(SideProps(v, t)) = 1
          /\ IF SidesDiffer(e)
             THEN /\ ids(t1) \cap ids(t2) = {}
                  /\ \A v \in EdgeVerts(e) : \A t \in {t1, t2} : \A id \in SideProps(v, t) :
                       NewRow(id) = InterpRow(v, t, e)
             ELSE \A v \in EdgeVerts(e) : SideProps(v, t1) = SideProps(v, t2)

\* a subdivided mesh with two vertices on an edge whose sides differ at one
\* end only, and two on an edge whose sides match
C12_Witness ==
  /\ SubdivideRan /\ old.numProp > 0
  /\ \E e \in SourceEdges :
       /\ Cardinality(EdgeVerts(e)) = 2
       /\ \E a \in EndVerts(e) : PropAt(e \div 3, a) = PropAt(PairOf(e) \div 3, a)
       /\ SidesDiffer(e)
  /\ \E e \in SourceEdges : Cardinality(EdgeVerts(e)) = 2 /\ ~SidesDiffer(e)

\* the positions of a thread's cache.insert calls for key n, in order
WritesOf(n) == {i \in DOMAIN writes : writes[i].key = n}

FirstWrite(n) == CHOOSE i \in WritesOf(n) : \A j \in WritesOf(n) : i <= j

LastWrite(n) == CHOOSE i \in WritesOf(n) : \A j \in WritesOf(n) : j <= i

\* a Partition without the mark of who constructed it
Unstamped(p) == [f \in DOMAIN p \ {"madeBy"} |-> p[f]]

\* C13: when two threads miss on the same sorted key and both construct a
\* partition, the cache afterwards holds the partition that was written
\* last (as stated: the last writer wins).
C13_LastWriterWins ==
  \A n \in DOMAIN cache : cache[n].madeBy = writes[LastWrite(n)].thread

\* C13 (amended): the cache holds the partition that was written first, a
\* later insert for the same key leaves it alone, and the copy a later
\* writer constructed is equal to the stored one in all its fields.
C13_FirstWriterWins ==
  /\ \A n \in DOMAIN cache : cache[n].madeBy = writes[FirstWrite(n)].thread
  /\ \A i \in DOMAIN writes :
       /\ writes[i].key \in DOMAIN cache
       /\ Unstamped(threads[writes[i].thread].partition)
            = [Unstamped(cache[writes[i].key])
                 EXCEPT !.idx = threads[writes[i].thread].partition.idx]

C13_Witness ==
  \E i, j \in DOMAIN writes :
    /\ i < j
    /\ writes[i].key = writes[j].key
    /\ writes[i].thread # writes[j].thread

\* C14: in every interleaving of concurrent GetPartition calls a thread
\* that is at a cache access (find, copy out, insert) holds cacheLock, no
\* two threads are at a cache access at once, and a thread that constructs
\* a partition after a miss does not hold the lock.
AtCacheAccess(t) == threads[t].pc \in {"find", "copy", "insert"}

C14_CacheAccessUnderLock ==
  /\ \A t \in DOMAIN threads : AtCacheAccess(t) => cacheLock = t
  /\ \A t, u \in DOMAIN threads : (AtCacheAccess(t) /\ AtCacheAccess(u)) => t = u
  /\ \A t \in DOMAIN threads : threads[t].pc = "construct" => cacheLock # t

\* one thread constructs while another is inside its insert
C14_Witness ==
  \E t, u \in DOMAIN threads :
    /\ threads[t].pc = "construct"
    /\ threads[u].pc = "insert"
    /\ cacheLock = u

PartitionMade == partition # NoPartition

\* C16: for every div with entries >= 1, GetPartition returns
\* sortedDivisions in descending order and an idx that is a permutation of
\* {0, 1, 2} with sortedDivisions[i] = div[idx[i]] for every i.
C16_SortedWithIdx ==
  PartitionMade =>
    LET sd  == partition.sortedDivisions
        idx == partition.idx
    IN  /\ At(sd, 0) >= At(sd, 1) /\ At(sd, 1) >= At(sd, 2)
        /\ Len(idx) = 3 /\ {At(idx, i) : i \in 0..2} = {0, 1, 2}
        /\ \A i \in 0..2 : At(sd, i) = At(divisions, At(idx, i))

\* an ascending argument: all three swaps are made
C16_Witness ==
  /\ PartitionMade
  /\ At(divisions, 0) < At(divisions, 1) /\ At(divisions, 1) < At(divisions, 2)
  /\ partition.idx = <<2, 1, 0>>

\* index of the first inserted vertex of edge i in the partition for n
EdgeStart(n, i) == 3 + SumSeq([k \in 1..i |-> n[k] - 1], i)

\* the point at fraction j/m on the way from corner i to corner i + 1
OnEdge(i, j, m) ==
  [k \in 1..4 |-> IF k = 4 THEN m
                  ELSE IF k - 1 = i THEN m - j
                  ELSE IF k - 1 = (i + 1) % 3 THEN j ELSE 0]

\* the same rational point (components over a common denominator)
SameBary(p, q) == \A k \in 1..3 : p[k] * q[4] = q[k] * p[4]

\* C17: in the partition for the sorted triple n, vertBary[0..2] are the
\* three basis vectors, the next (n0-1)+(n1-1)+(n2-1) entries are the edge
\* vertices, the j-th of edge i at fraction j/n[i] from corner i to corner
\* i+1 with the third component zero, every entry from index n0+n1+n2 on
\* has three strictly positive components, and the components of every
\* entry sum to 1.
C17_VertBaryLayout ==
  PartitionMade =>
    LET n  == partition.sortedDivisions
        vb == partition.vertBary
    IN  /\ Len(vb) >= InteriorOffset(partition)
        /\ \A i \in 0..2 : At(vb, i) = Basis(i)
        /\ \A i \in 0..2 : \A j \in 1..(At(n, i) - 1) :
             LET b == At(vb, EdgeStart(n, i) + j - 1)
             IN  /\ SameBary(b, OnEdge(i, j, At(n, i)))
                 /\ At(b, (i + 2) % 3) = 0
        /\ \A v \in InteriorOffset(partition)..(Len(vb) - 1) :
             \A k \in 0..2 : At(At(vb, v), k) > 0
        /\ \A v \in 0..(Len(vb) - 1) :
             At(vb, v)[1] + At(vb, v)[2] + At(vb, v)[3] = At(vb, v)[4] /\ At(vb, v)[4] > 0

\* a partition with inserted vertices on all three edges, of different
\* counts, and with interior vertices
C17_Witness ==
  /\ PartitionMade
  /\ At(partition.sortedDivisions, 0) > At(partition.sortedDivisions, 1)
  /\ At(partition.sortedDivisions, 1) > At(partition.sortedDivisions, 2)
  /\ At(partition.sortedDivisions, 2) > 1
  /\ NumInterior(partition) > 1

\* C19: for every sorted triple a >= b >= c >= 1 the construction of the
\* partition comes to an end and every PartitionQuad call, direct or
\* recursive, receives an edgeAdded whose four entries are >= 0: the
\* "negative divisions!" assertion never fires.
C19_NoNegativeDivisions ==
  PartitionMade => (~partition.neg /\ Len(partition.triVert) > 0)

\* a partition of the obtuse branch with more interior vertices than the
\* nh - 1 on the split line, the others being rows of recursing quads
C19_Witness ==
  /\ PartitionMade
  /\ ~Acuteish(partition.sortedDivisions)
  /\ At(partition.sortedDivisions, 2) > 1
  /\ NumInterior(partition)
       > SplitNh(partition.sortedDivisions, SplitNs(partition.sortedDivisions)) - 1
  /\ ~partition.neg

\* C20: for every sorted triple with entries >= 1, every index in triVert
\* lies in [0, size of vertBary) and every vertBary entry is referenced by
\* at least one triangle.
C20_IndicesInRangeAndUsed ==
  PartitionMade =>
    /\ \A t \in DOMAIN partition.triVert : \A j \in 0..2 :
         InRange(partition.vertBary, At(partition.triVert[t], j))
    /\ \A v \in 0..(Len(partition.vertBary) - 1) :
         \E t \in DOMAIN partition.triVert : \E j \in 0..2 :
           At(partition.triVert[t], j) = v

\* a partition of the obtuse branch with n[2] > 1, where the offsets
\* hOffset and hOffset - 1 and the placeholder -1 are used
C20_Witness ==
  /\ PartitionMade
  /\ ~Acuteish(partition.sortedDivisions)
  /\ At(partition.sortedDivisions, 2) > 1
  /\ SplitNs(partition.sortedDivisions) > 1
  /\ \A t \in DOMAIN partition.triVert : \A j \in 0..2 :
       At(partition.triVert[t], j) >= 0

SharpenedRan == op.name = "CreateTangentsSharpened"

\* the entries of the list that are not ignored
Remaining == {k \in DOMAIN op.sharpenedEdges : QLess(op.sharpenedEdges[k].smoothness, Q(1, 1))}

\* the forward half-edge of the undirected edge half-edge h belongs to
ForwardOf(h) ==
  IF IsForward(At(old.halfedge, h)) THEN h ELSE At(old.halfedge, h).pairedHalfedge

\* the least smoothness listed for half-edge h, 1 if it has no entry
LeastListed(h) ==
  LET listed == {op.sharpenedEdges[k].smoothness :
                   k \in {x \in Remaining : op.sharpenedEdges[x].halfedge = h}}
  IN  IF listed = {} THEN Q(1, 1)
      ELSE CHOOSE s \in listed : \A x \in listed : ~QLess(x, s)

\* the list in every order
Reorderings(list) ==
  {[k \in DOMAIN list |-> list[f[k]]] :
     f \in {g \in [DOMAIN list -> DOMAIN list] : \A i, j \in DOMAIN list : g[i] = g[j] => i = j}}

\* C18: CreateTangents(sharpenedEdges) combines the list per undirected
\* edge whatever the order of the list: entries with smoothness >= 1 are
\* ignored, every undirected edge with a remaining entry has exactly one
\* pair, whose first element is the forward half-edge and whose second is
\* its paired half-edge, and each side's smoothness is the least one listed
\* for that half-edge, or 1 if the half-edge has no entry.
C18_EdgesCombinedPerEdge ==
  SharpenedRan =>
    /\ DOMAIN op.edges = {ForwardOf(op.sharpenedEdges[k].halfedge) : k \in Remaining}
    /\ \A f \in DOMAIN op.edges :
         /\ op.edges[f].first.halfedge = f
         /\ IsForward(At(old.halfedge, f))
         /\ op.edges[f].second.halfedge = At(old.halfedge, f).pairedHalfedge
         /\ op.edges[f].first.smoothness = LeastListed(f)
         /\ op.edges[f].second.smoothness = LeastListed(At(old.halfedge, f).pairedHalfedge)
    /\ \A list \in Reorderings(op.sharpenedEdges) :
         CombineFrom(old.halfedge, list, 1, << >>) = op.edges

\* a list that names one half-edge twice with different smoothness, the
\* backward one first, and the other side of the same edge once
C18_Witness ==
  /\ SharpenedRan
  /\ Len(op.sharpenedEdges) = 3
  /\ Remaining = {1, 2, 3}
  /\ ~IsForward(At(old.halfedge, op.sharpenedEdges[1].halfedge))
  /\ op.sharpenedEdges[2].halfedge = At(old.halfedge, op.sharpenedEdges[1].halfedge).pairedHalfedge
  /\ op.sharpenedEdges[3].halfedge = op.sharpenedEdges[2].halfedge
  /\ QLess(op.sharpenedEdges[3].smoothness, op.sharpenedEdges[2].smoothness)
  /\ Cardinality(DOMAIN op.edges) = 1

\* C15: on an empty mesh every operation (SetNormals, both CreateTangents
\* overloads, Subdivide, Refine) is a no-op that returns cleanly, without
\* reading or writing an element of an empty array.
C15_EmptyMeshNoOp ==
  (op.name # "none" /\ IsEmpty(old)) =>
    /\ op.outcome = "returned"
    /\ ~op.outOfRange
    /\ mesh = old

\* C21: within one SetNormals call, two corners of a creased vertex that
\* lie in the same fan group and came in with the same property vertex
\* leave with the same property vertex, whatever the triProperties on entry.
C21_SameGroupSamePropStaysTogether ==
  SetNormalsRan =>
    \A v \in 0..(NumVert(mesh) - 1) :
       Creased(v) =>
         \A a \in CornersOf(mesh, v), b \in CornersOf(mesh, v) :
            (/\ At(op.trace.cornerGroup, a) = At(op.trace.cornerGroup, b)
             /\ PropOf(old, a) = PropOf(old, b))
              => PropOf(mesh, a) = PropOf(mesh, b)

\* C22: after SetNormals has returned on a non-empty mesh with normalIdx >= 0,
\* every entry of triProperties is the id of a property vertex, the fan of
\* each vertex has been walked exactly once, and at every creased vertex each
\* corner lies in a group that has a normal (the walk starts at a group
\* boundary), so normals.back() never met an empty list
C22_EveryCornerAssignedOnce ==
  SetNormalsRan =>
    /\ Len(mesh.triProperties) = NumTri(mesh)
    /\ \A t \in 1..NumTri(mesh) : \A j \in 1..3 :
          mesh.triProperties[t][j] \in 0..(NumPropVert(mesh) - 1)
    /\ \A v \in 0..(NumVert(mesh) - 1) : At(op.trace.walks, v) = 1
    /\ \A v \in 0..(NumVert(mesh) - 1) :
          Creased(v) => \A e \in CornersOf(mesh, v) : At(op.trace.cornerGroup, e) >= 0
    /\ ~op.trace.emptyBack

\* a vertex between two flat faces is creased although no dihedral angle
\* exceeds minSharpAngle
C22_Witness ==
  /\ SetNormalsRan
  /\ op.args[Len(op.args)].minSharpAngle = 120
  /\ \E v \in 0..(NumVert(mesh) - 1) :
        /\ Creased(v)
        /\ At(VertFlatFace(old, FlatFaces(old)), v) = -2
        /\ NumGroups(v) = 3

\* the bulk pass of FlatFaces has run all its closures
FlatFacesReturned == op.name = "FlatFaces" /\ op.returned

Tris == 0..(NumTri(mesh) - 1)

\* the triangle across edge j of triangle t
AcrossEdge(t, j) == At(mesh.halfedge, At(mesh.halfedge, 3 * t + j).pairedHalfedge).face

\* the edges of t across which the triangle has the reference of t
SameFaceEdges(t) ==
  {j \in 0..2 : SameFace(At(mesh.triRef, AcrossEdge(t, j)), At(mesh.triRef, t))}

SameFaceNeighbours(t) == {AcrossEdge(t, j) : j \in SameFaceEdges(t)}

TwoSameFaceEdges(t) == Cardinality(SameFaceEdges(t)) >= 2

\* C23: when FlatFaces returns, triangle t is marked flat exactly when at
\* least two of its edges lead to a triangle with SameFace(t), or t is across
\* such an edge of a triangle for which that holds; so three co-referenced
\* triangles in a row are all flat and the two triangles of a co-referenced
\* pair without further co-referenced neighbours are not; the result is the
\* same for every interleaving of the closures' stores
C23_FlatExactlyNearTwoNeighbours ==
  FlatFacesReturned =>
    /\ \A t \in Tris :
          At(op.triIsFlatFace, t) <=>
            (TwoSameFaceEdges(t) \/ \E u \in SameFaceNeighbours(t) : TwoSameFaceEdges(u))
    /\ \A a \in Tris, b \in Tris, c \in Tris :
          (a # c /\ a # b /\ b # c /\ {a, c} \subseteq SameFaceNeighbours(b))
            => At(op.triIsFlatFace, a) /\ At(op.triIsFlatFace, b) /\ At(op.triIsFlatFace, c)
    /\ \A a \in Tris, b \in Tris :
          (/\ a # b
           /\ SameFaceNeighbours(a) = {b} /\ Cardinality(SameFaceEdges(a)) = 1
           /\ SameFaceNeighbours(b) = {a} /\ Cardinality(SameFaceEdges(b)) = 1)
            => ~At(op.triIsFlatFace, a) /\ ~At(op.triIsFlatFace, b)
    /\ op.triIsFlatFace = FlatFaces(mesh)

\* a returned pass on a mesh with a strip of three, whose ends have one
\* co-referenced neighbour each, and with an isolated pair
C23_Witness ==
  /\ FlatFacesReturned
  /\ \E a \in Tris, b \in Tris, c \in Tris :
        /\ a # c
        /\ SameFaceNeighbours(b) = {a, c}
        /\ SameFaceNeighbours(a) = {b}
        /\ SameFaceNeighbours(c) = {b}
        /\ At(op.triIsFlatFace, a) /\ At(op.triIsFlatFace, c)
  /\ \E a \in Tris, b \in Tris :
        /\ a # b
        /\ SameFaceNeighbours(a) = {b}
        /\ SameFaceNeighbours(b) = {a}
        /\ ~At(op.triIsFlatFace, a)

\* C24: a closure of a bulk pass writes only to the output slot of its own
\* element: in FlatFaces, the closure of triangle tri stores to no slot of
\* triIsFlatFace other than triIsFlatFace[tri]
C24_ClosureWritesOwnSlotOnly ==
  op.name = "FlatFaces" => \A w \in writes : w[2] = w[1]

\* the last call of the sequence was a Refine of a non-empty mesh
LastRefineRan == op.name = "Refine" /\ Len(calls) > 0 /\ ~IsEmpty(old)

\* ... and an earlier call was a Refine with no CreateTangents since
RefineSinceTangents ==
  /\ LastRefineRan
  /\ \E i \in 1..(Len(calls) - 1) :
        /\ calls[i] = "Refine"
        /\ \A j \in (i + 1)..(Len(calls) - 1) : calls[j] # "CreateTangents"

\* triPos * uvw for entry v of vertBary, over the mesh before the call
FlatPosition(v) ==
  BaryPoint([i \in 1..3 |->
               At(old.vertPos, At(old.halfedge, 3 * At(vertBary, v).tri + i - 1).startVert)],
            At(vertBary, v).uvw)

\* C25: after a Refine of a non-empty mesh the half-edge tangent array is
\* empty; and a Refine that follows a Refine with no CreateTangents in between
\* places every vertex at the linear barycentric combination (InterpTri does
\* not run), reserves no id and leaves originalID and the mesh ids of the
\* triangle references as they were
C25_RefineAfterRefineIsFlat ==
  /\ LastRefineRan => Len(mesh.halfedgeTangent) = 0
  /\ RefineSinceTangents =>
       /\ Len(old.halfedgeTangent) = 0
       /\ Len(mesh.vertPos) = Len(vertBary)
       /\ \A v \in 0..(Len(vertBary) - 1) : At(mesh.vertPos, v) = FlatPosition(v)
       /\ meshIDCounter = op.meshIDCounter
       /\ mesh.originalID = old.originalID
       /\ {r.meshID : r \in {mesh.triRef[t] : t \in 1..NumTri(mesh)}}
            = {r.meshID : r \in {old.triRef[t] : t \in 1..NumTri(old)}}

\* a Refine that adds vertices, after a Refine that found tangents and
\* reserved an id
C25_Witness ==
  /\ RefineSinceTangents
  /\ meshIDCounter > 1
  /\ Len(vertBary) > NumVert(old)
  /\ NumVert(old) > 4

====